---- MODULE Spec2Model ----
(***************************************************************************)
(* Daybound new-tab extension: the OTA update subsystem.                   *)
(*                                                                         *)
(* The shell router (shell.js), its backoff tracker and the background     *)
(* version checker (OtaUpdater.tsx) share four localStorage keys.  Every   *)
(* tab is one single-threaded browsing context: each action below is one   *)
(* synchronous run of a script, an event listener, a timer callback or the *)
(* continuation of an await, and reads and writes localStorage atomically. *)
(* Storage is shared by all tabs (multi-writer, last write wins).          *)
(*                                                                         *)
(* The pages of an extension origin always have localStorage, so the       *)
(* catch branches around the storage calls are not taken.                  *)
(*                                                                         *)
(* Several specifications share the module: Spec (FairSpec with fairness)  *)
(* is the update subsystem across tabs, SemverSpec applies compareSemver   *)
(* to version strings on its own, StoreSpec (FairStoreSpec with fairness)  *)
(* follows the persistent-state hook of one page of the app: its storage   *)
(* strategy, the bridge handshake, loads and writes.  BridgeSpec is the    *)
(* message protocol between the bridge client in the frame and the bridge  *)
(* host in the shell, and ListenSpec is what the client's message listener *)
(* receives, change events included.  TeardownSpec adds destroy() of the   *)
(* client, ShellSpec is one tab with its bridge host, PrecacheSpec         *)
(* (FairPrecacheSpec with fairness) one precache attempt, SwSpec the       *)
(* remote app's service worker, WriteSpec two tabs writing one key.  Each  *)
(* leaves the variables of the others alone.                               *)
(***************************************************************************)
EXTENDS Integers, Sequences, FiniteSets, TLC

\* ---------------------------------------------------------------- bounds
\* version strings handed to compareSemver on its own: up to MaxPieces
\* pieces joined by "."
MaxPieces == 3
\* instants of the clock: up to MaxShort check delays after the start; then
\* exactly one backoff window after the last of them, one check delay after
\* that, and a last instant at which the timers armed before it run
MaxShort == 2
\* the 500 ms of the handshake pass in HandshakeSteps steps of the clock
HandshakeSteps == 2
\* setValue() calls in one page
MaxSets == 2
\* get() and set() calls of one bridge client
MaxCalls == 2
\* entries of the client's list of change listeners
MaxListeners == 2
\* deployments of the remote app the service worker sees
MaxDeploys == 2

\* ------------------------------------------------------ program constants
IFRAME_TIMEOUT == 800
MAX_FAILURES == 3
BACKOFF_MS == 5 * 60 * 1000
CHECK_DELAY_MS == 3000
HANDSHAKE_TIMEOUT == 500
PRECACHE_TIMEOUT_MS == 15000
\* setTimeout(cleanup, 1_000) of precacheRemoteApp
CLEANUP_DELAY_MS == 1000
HandshakeStep == HANDSHAKE_TIMEOUT \div HandshakeSteps
\* a string is the sequence of its characters; BUNDLED_VERSION is "1.0.0"
BUNDLED_VERSION == <<"1", ".", "0", ".", "0">>

OTA_USE_REMOTE == "daybound_ota_use_remote"
OTA_REMOTE_VER == "daybound_ota_remote_version"
OTA_FAIL_COUNT == "daybound_ota_fail_count"
OTA_FAIL_TS == "daybound_ota_fail_ts"
OtaKeys == {OTA_USE_REMOTE, OTA_REMOTE_VER, OTA_FAIL_COUNT, OTA_FAIL_TS}

\* ------------------------------------------------------------ environment
Tabs == {1, 2}
WindowEnd == MaxShort * CHECK_DELAY_MS + BACKOFF_MS
Horizon == WindowEnd + CHECK_DELAY_MS + IFRAME_TIMEOUT
Instants ==
  {k * CHECK_DELAY_MS : k \in 0..MaxShort}
    \cup {WindowEnd, WindowEnd + CHECK_DELAY_MS, Horizon}
\* version strings the remote manifest may carry: "0.9.9" (older), "1.0.0"
\* (equal), "1.2.3" and "1.3.0" (newer), and "x" (not major.minor.patch)
ManifestVersions ==
  {<<"0", ".", "9", ".", "9">>, <<"1", ".", "0", ".", "0">>,
   <<"1", ".", "2", ".", "3">>, <<"1", ".", "3", ".", "0">>, <<"x">>}

\* the pieces the compared version strings are made of: "", "1", "2", "10"
\* and "x"
Pieces == {<<>>, <<"1">>, <<"2">>, <<"1", "0">>, <<"x">>}
NumeralPieces == {<<"1">>, <<"2">>, <<"1", "0">>}

VARIABLES
  now,          \* Date.now(), in ms
  ls,           \* localStorage: key -> <<>> (absent) or <<value>>
  tab,          \* per tab: the page it shows and that page's script state
  touched,      \* keys the last step wrote or removed
  prev,         \* localStorage before the last step
  ev,           \* the last step: what ran, in which tab, with what result
  fails,        \* recordFailure() calls since the failure count was last
                \* cleared or reset (counted up to MAX_FAILURES + 1)
  sinceReset,   \* 0 once isInBackoff() has reset the count, 1 after the one
                \* recordFailure() that follows, -1 otherwise
  blockedAt,    \* <<instant>> of the latest third failure in a row, while the
                \* backoff window after it lasts; <<>> otherwise
  clearedSince, \* the failure state was cleared after blockedAt
  precached,    \* versions whose precache load completed successfully
  sa, sb, sc,   \* version strings handed to compareSemver
  sr,           \* <<>>, or the results of comparing them
  env,          \* what one page of the app finds around it: chrome.storage.sync
                \* reachable, running inside a frame, a bridge host in the parent
  proc,         \* that page's module state: _strategy, _bridgeReady, the bridge
                \* client and its handshake
  load,         \* per persisted key: how far the hook's initial load has come
  pev,          \* the last step of that page
  hook,         \* per persisted key: the hook's state and loading
  back,         \* the backends: chrome.storage.sync and the page's localStorage
  inflight,     \* writes sent to chrome.storage.sync, directly or over the
                \* bridge, and not yet carried out (in the order sent)
  bc,           \* the bridge client in the frame: ready, pending, listeners
  bcall,        \* per correlation id: the get()/set() call and its promise
  toHost,       \* messages posted to the shell's window, not yet handled
  hops,         \* requests the host has passed to chrome.storage.sync
  toClient,     \* messages posted to the frame's window, not yet handled
  hstore,       \* the store behind the host
  hostChrome,   \* the host reaches chrome.storage.sync (else its localStorage)
  hreplies,     \* per correlation id: responses the host has sent (up to 2)
  bev,          \* the last step of the bridge
  att,          \* one precache attempt: its iframe, its timers, its outcome
  aev,          \* the last step of the attempt
  cache,        \* the service worker's caches: name -> path -> response
  server,       \* what the network answers for a path at the moment
  refetch,      \* fetches the worker has started and not yet seen the end of
  swev,         \* the last step of the service worker
  wpage,        \* per tab writing one key: the hook's value and its write
  wstore,       \* the backend the tabs share for that key
  wev           \* the last step of the writing tabs

otaVars == <<now, ls, tab, touched, prev, ev, fails, sinceReset, blockedAt, clearedSince, precached>>
semverVars == <<sa, sb, sc, sr>>
storeVars == <<env, proc, load, pev, hook, back, inflight>>
bridgeVars ==
  <<bc, bcall, toHost, hops, toClient, hstore, hostChrome, hreplies, bev>>
precacheVars == <<att, aev>>
swVars == <<cache, server, refetch, swev>>
writeVars == <<wpage, wstore, wev>>
lateVars == <<precacheVars, swVars, writeVars>>
vars == <<otaVars, semverVars, storeVars, bridgeVars, lateVars>>

\* ------------------------------------------------------------ localStorage
Absent == <<>>
Txn(kv) == [kv |-> kv, touched |-> {}]
getItem(st, k) == st.kv[k]
setItem(st, k, v) == [kv |-> [st.kv EXCEPT ![k] = <<v>>], touched |-> st.touched \cup {k}]
removeItem(st, k) == [kv |-> [st.kv EXCEPT ![k] = Absent], touched |-> st.touched \cup {k}]
\* parseInt(localStorage.getItem(k) || "0", 10); the code stores String(n) of
\* non-negative integers only, which parseInt reads back exactly
parseIntOr0(st, k) == IF getItem(st, k) = Absent THEN 0 ELSE getItem(st, k)[1]

\* --------------------------------------------------------- backoff tracker
\* variant: the count test is off by one (count <= MAX_FAILURES passes)
isInBackoff_offByOne(st, t) ==
  LET count == parseIntOr0(st, OTA_FAIL_COUNT) IN
  IF count <= MAX_FAILURES THEN [ret |-> FALSE, st |-> st]
  ELSE LET ts == parseIntOr0(st, OTA_FAIL_TS) IN
       IF t - ts > BACKOFF_MS
       THEN [ret |-> FALSE, st |-> setItem(st, OTA_FAIL_COUNT, 0)]
       ELSE [ret |-> TRUE, st |-> st]

\* variant: the window ends at exactly BACKOFF_MS (>= for >)
isInBackoff_windowEnd(st, t) ==
  LET count == parseIntOr0(st, OTA_FAIL_COUNT) IN
  IF count < MAX_FAILURES THEN [ret |-> FALSE, st |-> st]
  ELSE LET ts == parseIntOr0(st, OTA_FAIL_TS) IN
       IF t - ts >= BACKOFF_MS
       THEN [ret |-> FALSE, st |-> setItem(st, OTA_FAIL_COUNT, 0)]
       ELSE [ret |-> TRUE, st |-> st]

\* variant: the elapsed window is reported but the count is not reset
isInBackoff_noReset(st, t) ==
  LET count == parseIntOr0(st, OTA_FAIL_COUNT) IN
  IF count < MAX_FAILURES THEN [ret |-> FALSE, st |-> st]
  ELSE LET ts == parseIntOr0(st, OTA_FAIL_TS) IN
       IF t - ts > BACKOFF_MS
       THEN [ret |-> FALSE, st |-> st]
       ELSE [ret |-> TRUE, st |-> st]

isInBackoff(st, t) ==
  LET count == parseIntOr0(st, OTA_FAIL_COUNT) IN
  IF count < MAX_FAILURES THEN [ret |-> FALSE, st |-> st]
  ELSE LET ts == parseIntOr0(st, OTA_FAIL_TS) IN
       IF t - ts > BACKOFF_MS
       THEN [ret |-> FALSE, st |-> setItem(st, OTA_FAIL_COUNT, 0)]
       ELSE [ret |-> TRUE, st |-> st]

\* variant: the count is written back without the increment
recordFailure_noIncrement(st, t) ==
  LET c == parseIntOr0(st, OTA_FAIL_COUNT) IN
  setItem(setItem(st, OTA_FAIL_COUNT, c), OTA_FAIL_TS, t)

recordFailure(st, t) ==
  LET c == parseIntOr0(st, OTA_FAIL_COUNT) IN
  setItem(setItem(st, OTA_FAIL_COUNT, c + 1), OTA_FAIL_TS, t)

\* variant: only the count is removed
clearFailures_countOnly(st) ==
  removeItem(st, OTA_FAIL_COUNT)

clearFailures(st) ==
  removeItem(removeItem(st, OTA_FAIL_COUNT), OTA_FAIL_TS)

\* ------------------------------------------------------------ semver
RECURSIVE SplitFrom(_, _, _)
\* s.split("."): cur is the piece being read, i the next character
SplitFrom(s, i, cur) ==
  IF i > Len(s) THEN <<cur>>
  ELSE IF s[i] = "." THEN <<cur>> \o SplitFrom(s, i + 1, <<>>)
  ELSE SplitFrom(s, i + 1, Append(cur, s[i]))
Split(s) == SplitFrom(s, 1, <<>>)

DigitChars == <<"0", "1", "2", "3", "4", "5", "6", "7", "8", "9">>
IsDigit(c) == \E d \in 1..Len(DigitChars) : DigitChars[d] = c
DigitVal(c) == (CHOOSE d \in 1..Len(DigitChars) : DigitChars[d] = c) - 1
RECURSIVE Decimal(_, _)
\* the value of the first n characters of a string of decimal digits
Decimal(seg, n) ==
  IF n = 0 THEN 0 ELSE Decimal(seg, n - 1) * 10 + DigitVal(seg[n])

\* a JavaScript number: an integer or NaN
Num(n) == [nan |-> FALSE, val |-> n]
NaN == [nan |-> TRUE, val |-> 0]
\* Number(seg) for a string of digits and other non-blank characters: the
\* empty string is 0, a string of decimal digits is its value, the rest NaN
Number(seg) ==
  IF \A i \in 1..Len(seg) : IsDigit(seg[i]) THEN Num(Decimal(seg, Len(seg)))
  ELSE NaN
\* x > y and x < y on numbers: every comparison with NaN is false
Gt(x, y) == ~x.nan /\ ~y.nan /\ x.val > y.val
Lt(x, y) == ~x.nan /\ ~y.nan /\ x.val < y.val

\* s.split(".").map(Number)
Parts(s) == LET p == Split(s) IN [i \in 1..Len(p) |-> Number(p[i])]
\* pa[i] ?? 0: only a missing element is replaced, NaN is kept
Seg(p, i) == IF i <= Len(p) THEN p[i] ELSE Num(0)

\* variant: the patch segment is not compared
compareSemver_noPatch(a, b) ==
  LET pa == Parts(a)
      pb == Parts(b)
  IN
  IF Gt(Seg(pa, 1), Seg(pb, 1)) THEN 1
  ELSE IF Lt(Seg(pa, 1), Seg(pb, 1)) THEN -1
  ELSE IF Gt(Seg(pa, 2), Seg(pb, 2)) THEN 1
  ELSE IF Lt(Seg(pa, 2), Seg(pb, 2)) THEN -1
  ELSE 0

compareSemver(a, b) ==
  LET pa == Parts(a)
      pb == Parts(b)
  IN
  IF Gt(Seg(pa, 1), Seg(pb, 1)) THEN 1
  ELSE IF Lt(Seg(pa, 1), Seg(pb, 1)) THEN -1
  ELSE IF Gt(Seg(pa, 2), Seg(pb, 2)) THEN 1
  ELSE IF Lt(Seg(pa, 2), Seg(pb, 2)) THEN -1
  ELSE IF Gt(Seg(pa, 3), Seg(pb, 3)) THEN 1
  ELSE IF Lt(Seg(pa, 3), Seg(pb, 3)) THEN -1
  ELSE 0

\* ------------------------------------------------------------ tab pages
\* pc: "closed"     no page
\*     "shell"      shell.html with the remote frame and its listeners
\*     "navigating" location.replace("index.html") requested, shell still alive
\*     "bundled"    index.html (the bundled app, top-level) is running
\* settled, timer, loaderHidden, hasFrame: the shell script's locals and DOM
\*   (hasFrame: the remote branch ran: the frame has its src, and the load,
\*   error and message listeners are installed)
\* due: when the armed timer (iframe timer or check delay) may fire
\* chk: the version checker of the bundled page
\*     "none" | "waiting" (delay running) | "fetching" | "precaching"
\*     | "done" (runCheck returned; ev.res tells how)
\*     | "embedded" (<OtaUpdater /> mounted inside the remote frame)
\* ver: the manifest version the checker is precaching
\* checks: how often runCheck() has started in this page (counted up to 2)
NoPage ==
  [pc |-> "closed", settled |-> FALSE, timer |-> FALSE, loaderHidden |-> FALSE,
   hasFrame |-> FALSE, due |-> 0, chk |-> "none", ver |-> <<>>, checks |-> 0]

goToBundled(tr) == [tr EXCEPT !.pc = "navigating"]

\* variant: navigator.onLine is not consulted
routeDecision_ignoreOffline(st, online, t) ==
  LET useRemote == getItem(st, OTA_USE_REMOTE) = <<"true">> IN
  IF ~useRemote
  THEN [fast |-> TRUE, asked |-> FALSE, ret |-> FALSE, st |-> st]
  ELSE LET b == isInBackoff(st, t) IN
       [fast |-> b.ret, asked |-> TRUE, ret |-> b.ret, st |-> b.st]

\* the routing decision of shell.js: fast when the flag is not "true", the
\* browser is offline, or isInBackoff() (evaluated last, only if reached)
routeDecision(st, online, t) ==
  LET useRemote == getItem(st, OTA_USE_REMOTE) = <<"true">> IN
  IF ~useRemote \/ ~online
  THEN [fast |-> TRUE, asked |-> FALSE, ret |-> FALSE, st |-> st]
  ELSE LET b == isInBackoff(st, t) IN
       [fast |-> b.ret, asked |-> TRUE, ret |-> b.ret, st |-> b.st]

\* variant: a failure leaves the flag in place
settle_keepFlag(tr, st, success, t) ==
  IF tr.settled THEN [tab |-> tr, st |-> st]
  ELSE LET tr1 == [tr EXCEPT !.settled = TRUE, !.timer = FALSE, !.due = 0] IN
       IF success
       THEN [tab |-> [tr1 EXCEPT !.loaderHidden = TRUE], st |-> clearFailures(st)]
       ELSE [tab |-> goToBundled(tr1), st |-> recordFailure(st, t)]

\* variant: no settled guard, every signal is acted on
settle_noGuard(tr, st, success, t) ==
  LET tr1 == [tr EXCEPT !.settled = TRUE, !.timer = FALSE, !.due = 0] IN
  IF success
  THEN [tab |-> [tr1 EXCEPT !.loaderHidden = TRUE], st |-> clearFailures(st)]
  ELSE [tab |-> goToBundled(tr1),
        st |-> removeItem(recordFailure(st, t), OTA_USE_REMOTE)]

\* variant: the settled guard holds back failures only, a late load still
\* clears the failure fields
settle_lateLoadClears(tr, st, success, t) ==
  IF tr.settled
  THEN [tab |-> tr, st |-> IF success THEN clearFailures(st) ELSE st]
  ELSE LET tr1 == [tr EXCEPT !.settled = TRUE, !.timer = FALSE, !.due = 0] IN
       IF success
       THEN [tab |-> [tr1 EXCEPT !.loaderHidden = TRUE], st |-> clearFailures(st)]
       ELSE [tab |-> goToBundled(tr1),
             st |-> removeItem(recordFailure(st, t), OTA_USE_REMOTE)]

\* settle(success) of the remote path, run by the load and error listeners
\* and by the timer callback
settle(tr, st, success, t) ==
  IF tr.settled THEN [tab |-> tr, st |-> st]
  ELSE LET tr1 == [tr EXCEPT !.settled = TRUE, !.timer = FALSE, !.due = 0] IN
       IF success
       THEN [tab |-> [tr1 EXCEPT !.loaderHidden = TRUE], st |-> clearFailures(st)]
       ELSE [tab |-> goToBundled(tr1),
             st |-> removeItem(recordFailure(st, t), OTA_USE_REMOTE)]

\* ------------------------------------------------------- version checker
\* variant: the effect does not look at window.self !== window.top
mountOtaUpdater_noEmbedCheck(tr, embedded, t) ==
  [tr EXCEPT !.chk = "waiting", !.timer = TRUE, !.due = t + CHECK_DELAY_MS]

\* the effect of <OtaUpdater />, run once when the component mounts: nothing
\* in an embedded context, setTimeout(runCheck, CHECK_DELAY_MS) otherwise
mountOtaUpdater(tr, embedded, t) ==
  IF embedded THEN [tr EXCEPT !.chk = "embedded"]
  ELSE [tr EXCEPT !.chk = "waiting", !.timer = TRUE, !.due = t + CHECK_DELAY_MS]

\* variant: the versions are not compared, whatever is not recorded is precached
checkManifest_noCompare(st, v) ==
  IF getItem(st, OTA_REMOTE_VER) = <<v>>
  THEN [st |-> setItem(st, OTA_USE_REMOTE, "true"), chk |-> "done",
        res |-> "cached", ver |-> <<>>]
  ELSE [st |-> st, chk |-> "precaching", res |-> "precaching", ver |-> v]

\* variant: any newer version sets the flag, precached or not
checkManifest_skipPrecache(st, v) ==
  IF compareSemver(v, BUNDLED_VERSION) <= 0
  THEN [st |-> removeItem(st, OTA_USE_REMOTE), chk |-> "done", res |-> "uptodate",
        ver |-> <<>>]
  ELSE [st |-> setItem(st, OTA_USE_REMOTE, "true"), chk |-> "done",
        res |-> "cached", ver |-> <<>>]

\* variant: an equal version counts as newer (< 0 for <= 0)
checkManifest_equalIsNewer(st, v) ==
  IF compareSemver(v, BUNDLED_VERSION) < 0
  THEN [st |-> removeItem(st, OTA_USE_REMOTE), chk |-> "done", res |-> "uptodate",
        ver |-> <<>>]
  ELSE IF getItem(st, OTA_REMOTE_VER) = <<v>>
       THEN [st |-> setItem(st, OTA_USE_REMOTE, "true"), chk |-> "done",
             res |-> "cached", ver |-> <<>>]
       ELSE [st |-> st, chk |-> "precaching", res |-> "precaching", ver |-> v]

\* variant: the recorded version is not looked at, every newer one is precached
checkManifest_alwaysPrecache(st, v) ==
  IF compareSemver(v, BUNDLED_VERSION) <= 0
  THEN [st |-> removeItem(st, OTA_USE_REMOTE), chk |-> "done", res |-> "uptodate",
        ver |-> <<>>]
  ELSE [st |-> st, chk |-> "precaching", res |-> "precaching", ver |-> v]

\* runCheck() after the manifest arrived with version v: compare, then either
\* stop or start precaching (the code between the fetch and precacheRemoteApp)
checkManifest(st, v) ==
  IF compareSemver(v, BUNDLED_VERSION) <= 0
  THEN [st |-> removeItem(st, OTA_USE_REMOTE), chk |-> "done", res |-> "uptodate",
        ver |-> <<>>]
  ELSE IF getItem(st, OTA_REMOTE_VER) = <<v>>
       THEN [st |-> setItem(st, OTA_USE_REMOTE, "true"), chk |-> "done",
             res |-> "cached", ver |-> <<>>]
       ELSE [st |-> st, chk |-> "precaching", res |-> "precaching", ver |-> v]

\* variant: a successful precache removes the count but not the timestamp
checkPrecached_keepTs(st, v, success) ==
  IF success
  THEN [st |-> removeItem(
                  setItem(setItem(st, OTA_USE_REMOTE, "true"), OTA_REMOTE_VER, v),
                  OTA_FAIL_COUNT),
        chk |-> "done", res |-> "ready"]
  ELSE [st |-> st, chk |-> "done", res |-> "failed"]

\* variant: a successful precache does not record the version
checkPrecached_noVersion(st, v, success) ==
  IF success
  THEN [st |-> removeItem(removeItem(
                  setItem(st, OTA_USE_REMOTE, "true"),
                  OTA_FAIL_COUNT), OTA_FAIL_TS),
        chk |-> "done", res |-> "ready"]
  ELSE [st |-> st, chk |-> "done", res |-> "failed"]

\* variant: a failed precache removes the flag
checkPrecached_failClears(st, v, success) ==
  IF success
  THEN [st |-> removeItem(removeItem(
                  setItem(setItem(st, OTA_USE_REMOTE, "true"), OTA_REMOTE_VER, v),
                  OTA_FAIL_COUNT), OTA_FAIL_TS),
        chk |-> "done", res |-> "ready"]
  ELSE [st |-> removeItem(st, OTA_USE_REMOTE), chk |-> "done", res |-> "failed"]

\* runCheck() after precacheRemoteApp() resolved with `success`
checkPrecached(st, v, success) ==
  IF success
  THEN [st |-> removeItem(removeItem(
                  setItem(setItem(st, OTA_USE_REMOTE, "true"), OTA_REMOTE_VER, v),
                  OTA_FAIL_COUNT), OTA_FAIL_TS),
        chk |-> "done", res |-> "ready"]
  ELSE [st |-> st, chk |-> "done", res |-> "failed"]

\* ------------------------------------------------------------ bookkeeping
NoEv ==
  [op |-> "init", tab |-> 0, online |-> TRUE, fast |-> FALSE, asked |-> FALSE,
   ret |-> FALSE, ran |-> FALSE, res |-> "", ver |-> <<>>]

\* a step the properties do not single out
Quiet == [NoEv EXCEPT !.op = "other"]

Min(a, b) == IF a < b THEN a ELSE b

\* what every step records: the storage it leaves, the keys it touched, and
\* the history the properties read.  didFail: recordFailure() ran; didClear:
\* the failure fields were removed; didReset: isInBackoff() reset the count.
Track(st, e, didFail, didClear, didReset) ==
  LET f == IF didClear \/ didReset THEN 0
           ELSE IF didFail THEN Min(fails + 1, MAX_FAILURES + 1) ELSE fails
      third == didFail /\ f = MAX_FAILURES
  IN
  /\ ls' = st.kv
  /\ touched' = st.touched
  /\ prev' = ls
  /\ ev' = e
  /\ fails' = f
  /\ sinceReset' = IF didReset THEN 0
                   ELSE IF didFail /\ sinceReset = 0 THEN 1
                   ELSE IF didFail THEN -1
                   ELSE sinceReset
  /\ blockedAt' = IF third THEN <<now>> ELSE blockedAt
  /\ clearedSince' = ((blockedAt' # <<>>) /\ ~third /\ (clearedSince \/ didClear))
  /\ now' = now
  /\ UNCHANGED <<semverVars, storeVars, bridgeVars, lateVars>>

\* ------------------------------------------------------------ actions
\* a new tab opens shell.html; shell.js runs to its end (tabs are
\* interchangeable: the new page takes the first free slot)
Open(t, online) ==
  /\ tab[t].pc = "closed"
  /\ \A u \in Tabs : u < t => tab[u].pc # "closed"
  /\ now + IFRAME_TIMEOUT <= Horizon
  /\ LET d == routeDecision(Txn(ls), online, now)
         shell == [NoPage EXCEPT !.pc = "shell"]
     IN
     /\ tab' = [tab EXCEPT ![t] =
                  IF d.fast THEN goToBundled(shell)
                  ELSE [shell EXCEPT !.hasFrame = TRUE, !.timer = TRUE,
                                     !.due = now + IFRAME_TIMEOUT]]
     /\ Track(d.st, [NoEv EXCEPT !.op = "open", !.tab = t, !.online = online,
                                 !.fast = d.fast, !.asked = d.asked, !.ret = d.ret],
              FALSE, FALSE, d.asked /\ OTA_FAIL_COUNT \in d.st.touched)
  /\ UNCHANGED precached

\* a listener or the timer of the remote path calls settle(success)
Settle(t, op, success) ==
  LET r == settle(tab[t], Txn(ls), success, now)
      ran == r.tab # tab[t]
  IN
  /\ tab' = [tab EXCEPT ![t] = r.tab]
  /\ Track(r.st, [NoEv EXCEPT !.op = op, !.tab = t, !.ran = ran],
           ran /\ ~success, ran /\ success, FALSE)
  /\ UNCHANGED precached

\* the frame's load event (it may fire again when the frame navigates)
FrameLoad(t) ==
  /\ tab[t].hasFrame
  /\ tab[t].pc \in {"shell", "navigating"}
  /\ Settle(t, "load", TRUE)

FrameError(t) ==
  /\ tab[t].hasFrame
  /\ tab[t].pc \in {"shell", "navigating"}
  /\ Settle(t, "error", FALSE)

\* setTimeout(function () { settle(false); }, IFRAME_TIMEOUT)
TimerFire(t) ==
  /\ tab[t].pc = "shell"
  /\ tab[t].timer
  /\ now >= tab[t].due
  /\ Settle(t, "timer", FALSE)

\* index.html replaces the shell; <OtaUpdater /> mounts in a top-level page
\* and arms setTimeout(runCheck, CHECK_DELAY_MS)
NavigateDone(t) ==
  /\ tab[t].pc = "navigating"
  /\ tab' = [tab EXCEPT ![t] =
               mountOtaUpdater([NoPage EXCEPT !.pc = "bundled"], FALSE, now)]
  /\ Track(Txn(ls), Quiet, FALSE, FALSE, FALSE)
  /\ UNCHANGED precached

\* the remote app has rendered inside the frame that shell.html keeps and
\* mounts its own <OtaUpdater />, in an embedded context
RemoteAppMount(t) ==
  /\ tab[t].hasFrame
  /\ tab[t].pc = "shell" /\ tab[t].settled
  /\ tab[t].chk = "none"
  /\ tab' = [tab EXCEPT ![t] = mountOtaUpdater(tab[t], TRUE, now)]
  /\ Track(Txn(ls), Quiet, FALSE, FALSE, FALSE)
  /\ UNCHANGED precached

\* the delay timer fires: runCheck() starts and awaits the manifest; ev.ran
\* tells whether CHECK_DELAY_MS have passed since the mount
CheckStart(t) ==
  /\ tab[t].pc = "bundled"
  /\ tab[t].chk = "waiting"
  /\ now >= tab[t].due
  /\ tab' = [tab EXCEPT ![t].chk = "fetching", ![t].timer = FALSE, ![t].due = 0,
                        ![t].checks = Min(tab[t].checks + 1, 2)]
  /\ Track(Txn(ls),
           [NoEv EXCEPT !.op = "check", !.tab = t,
                        !.ran = (now - (tab[t].due - CHECK_DELAY_MS) >= CHECK_DELAY_MS)],
           FALSE, FALSE, FALSE)
  /\ UNCHANGED precached

\* variant: a failed fetch removes the flag
FetchFail_removesFlag(t) ==
  /\ tab[t].pc = "bundled"
  /\ tab[t].chk = "fetching"
  /\ tab' = [tab EXCEPT ![t].chk = "done"]
  /\ Track(removeItem(Txn(ls), OTA_USE_REMOTE),
           [NoEv EXCEPT !.op = "fetchfail", !.tab = t], FALSE, FALSE, FALSE)
  /\ UNCHANGED precached

\* the fetch rejects or times out, the response is not ok, the body is not
\* JSON, or it carries no version or one that is not a string: runCheck()
\* returns or lands in its catch
FetchFail(t) ==
  /\ tab[t].pc = "bundled"
  /\ tab[t].chk = "fetching"
  /\ tab' = [tab EXCEPT ![t].chk = "done"]
  /\ Track(Txn(ls), [NoEv EXCEPT !.op = "fetchfail", !.tab = t], FALSE, FALSE, FALSE)
  /\ UNCHANGED precached

\* the manifest arrives with the version string v (the two awaits of the fetch touch no
\* shared state, so they are one step here)
FetchOK(t, v) ==
  /\ tab[t].pc = "bundled"
  /\ tab[t].chk = "fetching"
  /\ LET c == checkManifest(Txn(ls), v) IN
     /\ tab' = [tab EXCEPT ![t].chk = c.chk, ![t].ver = c.ver]
     /\ Track(c.st, [NoEv EXCEPT !.op = "manifest", !.tab = t, !.res = c.res, !.ver = v],
              FALSE, FALSE, FALSE)
  /\ UNCHANGED precached

\* the hidden iframe signals load (success) or error, or its timeout fires
PrecacheDone(t, success) ==
  /\ tab[t].pc = "bundled"
  /\ tab[t].chk = "precaching"
  /\ LET c == checkPrecached(Txn(ls), tab[t].ver, success) IN
     /\ tab' = [tab EXCEPT ![t].chk = c.chk, ![t].ver = <<>>]
     /\ Track(c.st, [NoEv EXCEPT !.op = "precached", !.tab = t, !.ran = success,
                                 !.res = c.res, !.ver = tab[t].ver],
              FALSE, success, FALSE)
  /\ precached' = IF success THEN precached \cup {tab[t].ver} ELSE precached

\* the user closes a tab that has reached its outcome: the page and its
\* timers are gone (<OtaUpdater /> unmounts, its cleanup clears the delay
\* timer)
Close(t) ==
  /\ \/ tab[t].pc = "bundled"
     \/ tab[t].pc = "shell" /\ tab[t].settled
  /\ tab' = [tab EXCEPT ![t] = NoPage]
  /\ Track(Txn(ls), Quiet, FALSE, FALSE, FALSE)
  /\ UNCHANGED precached

\* time passes, by any amount the clock's instants allow; a timer that is
\* due runs (or its tab is closed) before the clock moves on
Tick(to) ==
  /\ to > now
  /\ \A t \in Tabs : ~(tab[t].timer /\ tab[t].due <= now)
  /\ now' = to
  /\ touched' = {}
  /\ prev' = ls
  /\ ev' = Quiet
  /\ blockedAt' = IF blockedAt # <<>> /\ to - blockedAt[1] > BACKOFF_MS
                  THEN <<>> ELSE blockedAt
  /\ clearedSince' = ((blockedAt' # <<>>) /\ clearedSince)
  /\ UNCHANGED <<ls, tab, fails, sinceReset, precached>>
  /\ UNCHANGED <<semverVars, storeVars, bridgeVars, lateVars>>

\* no tab is open and nothing is stored yet
OtaInit ==
  /\ now = 0
  /\ ls = [k \in OtaKeys |-> Absent]
  /\ tab = [t \in Tabs |-> NoPage]
  /\ touched = {}
  /\ prev = [k \in OtaKeys |-> Absent]
  /\ ev = NoEv
  /\ fails = 0
  /\ sinceReset = -1
  /\ blockedAt = <<>>
  /\ clearedSince = FALSE
  /\ precached = {}

\* no comparison is under way
SemverIdle == sa = <<>> /\ sb = <<>> /\ sc = <<>> /\ sr = <<>>

\* the keys the app persists with usePersistentState
StoreKeys == {"timezone_config", "app_settings"}

\* ------------------------------------------------- storage bridge protocol
\* the shell shows the remote app in its frame; the bridge client runs in
\* the frame, the bridge host in the shell
Listeners == {"L1", "L2"}
\* listeners that throw when called
Throwing == {"L1"}
BridgeValues == {"b"}
\* the correlation ids are those of crypto.randomUUID(): 1, 2, ... in the
\* order drawn; 0 is an id no get() or set() of the client has drawn
CallIds == 1..MaxCalls

NoClient == [made |-> FALSE, ready |-> FALSE, pending |-> {}, listeners |-> <<>>]
NoCall ==
  [kind |-> "none", key |-> "", val |-> "", state |-> "none", data |-> <<>>,
   from |-> "", n |-> 0]
NoBev ==
  [op |-> "init", type |-> "", src |-> "", origin |-> "", id |-> 0,
   key |-> "", val |-> "", accepted |-> FALSE, failed |-> FALSE,
   replies |-> {}, touched |-> FALSE, resolved |-> {}, called |-> <<>>,
   lis |-> ""]

\* a message to the host: who posted it (the frame's window or another
\* one), the origin of the posting document, and its payload
ToHostMsg(src, origin, type, id, key, val) ==
  [src |-> src, origin |-> origin, type |-> type, id |-> id, key |-> key,
   val |-> val]
\* a message to the client: its source window and its payload (data is what
\* a get returned for key, or the new value of a change)
ToClientMsg(src, type, id, key, data) ==
  [src |-> src, type |-> type, id |-> id, key |-> key, data |-> data]

\* variant: messages of every source are processed
fromParent_anySource(m) == TRUE

\* handleMessage: e.source === window.parent
fromParent(m) == m.src = "parent"

\* variant: a response resolves whichever call is pending
lookupPending_any(pending, id) ==
  IF pending = {} THEN {} ELSE {CHOOSE i \in pending : TRUE}

\* this.pending.get(msg.id): the call waiting under that id, if any
lookupPending(pending, id) == IF id \in pending THEN {id} ELSE {}

\* variant: a response empties the table
settlePending_clearAll(pending, id) == {}

\* variant: the entry stays in the table
settlePending_keep(pending, id) == pending

\* this.pending.delete(msg.id)
settlePending(pending, id) == pending \ {id}

RECURSIVE CallFrom_noCatch(_, _)
CallFrom_noCatch(lst, i) ==
  IF i > Len(lst) THEN <<>>
  ELSE IF lst[i] \in Throwing THEN <<lst[i]>>
  ELSE <<lst[i]>> \o CallFrom_noCatch(lst, i + 1)

\* variant: a throwing listener ends the delivery
deliverChange_noCatch(lst) == CallFrom_noCatch(lst, 1)

RECURSIVE CallFrom(_, _)
CallFrom(lst, i) ==
  IF i > Len(lst) THEN <<>> ELSE <<lst[i]>> \o CallFrom(lst, i + 1)

\* for (const listener of this.changeListeners) try { listener(...) } catch {}:
\* the listeners called, in order
deliverChange(lst) == CallFrom(lst, 1)

\* the continuation stored by get() or set() runs with the response's data
resolveCall(call, m) ==
  [call EXCEPT !.state = "resolved", !.n = Min(call.n + 1, 2),
               !.data = IF m.type = "storage-result" THEN m.data ELSE <<>>,
               !.from = m.key]

\* handleMessage: the client's state, the calls and what was resolved and
\* called after message m
handleMessage(c, calls, m) ==
  IF ~fromParent(m)
  THEN [c |-> c, calls |-> calls, accepted |-> FALSE, resolved |-> {},
        called |-> <<>>]
  ELSE IF m.type = "bridge-ready"
  THEN [c |-> [c EXCEPT !.ready = TRUE], calls |-> calls, accepted |-> TRUE,
        resolved |-> {}, called |-> <<>>]
  ELSE IF m.type \in {"storage-result", "storage-set-ack"}
  THEN LET hit == lookupPending(c.pending, m.id) IN
       [c |-> [c EXCEPT !.pending =
                 IF hit = {} THEN c.pending ELSE settlePending(c.pending, m.id)],
        calls |-> [i \in CallIds |->
                     IF i \in hit THEN resolveCall(calls[i], m) ELSE calls[i]],
        accepted |-> TRUE, resolved |-> hit, called |-> <<>>]
  ELSE IF m.type = "storage-changed"
  THEN [c |-> c, calls |-> calls, accepted |-> TRUE, resolved |-> {},
        called |-> deliverChange(c.listeners)]
  ELSE [c |-> c, calls |-> calls, accepted |-> TRUE, resolved |-> {},
        called |-> <<>>]

\* variant: messages of every window are served
fromFrame_anyWindow(m) == TRUE

\* variant: the response carries no correlation id
hostReply_noId(m, cell) ==
  ToClientMsg("parent",
              IF m.type = "storage-get" THEN "storage-result" ELSE "storage-set-ack",
              0, m.key, IF m.type = "storage-get" THEN cell ELSE <<>>)

\* the host's response to a get or set request
hostReply(m, cell) ==
  ToClientMsg("parent",
              IF m.type = "storage-get" THEN "storage-result" ELSE "storage-set-ack",
              m.id, m.key, IF m.type = "storage-get" THEN cell ELSE <<>>)

\* the host's listener: event.source !== frame.contentWindow is dropped
fromFrame(m) == m.src = "frame"

Counted(h, id) == [h EXCEPT ![id] = Min(h[id] + 1, 2)]

\* new StorageBridgeClient(): the listener is added and the client
\* announces itself to the parent
ClientMake ==
  /\ ~bc.made
  /\ bc' = [bc EXCEPT !.made = TRUE]
  /\ toHost' = toHost \cup {ToHostMsg("frame", "remote", "iframe-ready", 0, "", "")}
  /\ bev' = [NoBev EXCEPT !.op = "make"]
  /\ UNCHANGED <<bcall, hops, toClient, hstore, hostChrome, hreplies>>
  /\ UNCHANGED <<otaVars, semverVars, storeVars, lateVars>>

\* get([key]) or set({key: val}): a fresh id, the continuation stored under
\* it, the request posted
ClientCall(kind, k, v) ==
  /\ bc.made
  /\ \E id \in CallIds :
     /\ bcall[id].kind = "none"
     /\ \A j \in CallIds : j < id => bcall[j].kind # "none"
     /\ bc' = [bc EXCEPT !.pending = bc.pending \cup {id}]
     /\ bcall' = [bcall EXCEPT ![id] =
                    [NoCall EXCEPT !.kind = kind, !.key = k, !.val = v,
                                   !.state = "pending"]]
     /\ toHost' = toHost \cup
                    {ToHostMsg("frame", "remote",
                               IF kind = "get" THEN "storage-get" ELSE "storage-set",
                               id, k, v)}
     /\ bev' = [NoBev EXCEPT !.op = "call", !.id = id]
  /\ UNCHANGED <<hops, toClient, hstore, hostChrome, hreplies>>
  /\ UNCHANGED <<otaVars, semverVars, storeVars, lateVars>>

\* onChanged(listener)
Subscribe(l) ==
  /\ bc.made
  /\ Len(bc.listeners) < MaxListeners
  /\ bc' = [bc EXCEPT !.listeners = Append(bc.listeners, l)]
  /\ bev' = [NoBev EXCEPT !.op = "sub", !.lis = l]
  /\ UNCHANGED <<bcall, toHost, hops, toClient, hstore, hostChrome, hreplies>>
  /\ UNCHANGED <<otaVars, semverVars, storeVars, lateVars>>

\* the function onChanged(listener) returned is called
Unsubscribe(l) ==
  /\ \E i \in 1..Len(bc.listeners) : bc.listeners[i] = l
  /\ bc' = [bc EXCEPT !.listeners = SelectSeq(bc.listeners, LAMBDA x : x # l)]
  /\ bev' = [NoBev EXCEPT !.op = "unsub", !.lis = l]
  /\ UNCHANGED <<bcall, toHost, hops, toClient, hstore, hostChrome, hreplies>>
  /\ UNCHANGED <<otaVars, semverVars, storeVars, lateVars>>

\* the client's listener runs on message m
ClientHandle(m) ==
  LET r == handleMessage(bc, bcall, m) IN
  /\ bc' = r.c
  /\ bcall' = r.calls
  /\ toClient' = toClient \ {m}
  /\ bev' = [NoBev EXCEPT !.op = "client", !.type = m.type, !.src = m.src,
                          !.id = m.id, !.accepted = r.accepted,
                          !.resolved = r.resolved, !.called = r.called]
  /\ UNCHANGED <<toHost, hops, hstore, hostChrome, hreplies>>
  /\ UNCHANGED <<otaVars, semverVars, storeVars, lateVars>>

\* a message of the host arrives
ClientReceive == \E m \in toClient : bc.made /\ ClientHandle(m)

\* destroy(): the message listener is removed, the table of pending calls is
\* emptied and the singleton is dropped, so that the next
\* getStorageBridgeClient() constructs a new client; the promises of the
\* calls that were pending are neither resolved nor rejected
ClientDestroy ==
  /\ bc.made
  /\ bc' = NoClient
  /\ bev' = [NoBev EXCEPT !.op = "destroy"]
  /\ UNCHANGED <<bcall, toHost, hops, toClient, hstore, hostChrome, hreplies>>
  /\ UNCHANGED <<otaVars, semverVars, storeVars, lateVars>>

\* a message arrives from a window that is not the parent
StrayToClient ==
  {ToClientMsg("other", t, i, k, <<"evil">>) :
     t \in {"bridge-ready", "storage-result", "storage-set-ack", "storage-changed"},
     i \in {1}, k \in {"timezone_config"}}

ClientStray == \E m \in StrayToClient : bc.made /\ ClientHandle(m)

\* the parent sends a response under an id that no call has drawn
ClientUnknown ==
  \E t \in {"storage-result", "storage-set-ack"} :
    bc.made /\ ClientHandle(ToClientMsg("parent", t, 0, "timezone_config", <<"evil">>))

\* a response that was handled before arrives a second time
ClientDuplicate ==
  \E i \in CallIds :
    /\ bcall[i].state = "resolved"
    /\ ClientHandle(ToClientMsg("parent",
                                IF bcall[i].kind = "get" THEN "storage-result"
                                ELSE "storage-set-ack",
                                i, bcall[i].from, bcall[i].data))

\* the shell's message listener runs on message m
HostHandle(m) ==
  /\ toHost' = toHost \ {m}
  /\ IF ~fromFrame(m)
     THEN /\ bev' = [NoBev EXCEPT !.op = "host", !.type = m.type, !.src = m.src,
                                  !.origin = m.origin, !.id = m.id]
          /\ UNCHANGED <<hops, toClient, hstore, hreplies>>
     ELSE IF m.type = "iframe-ready"
     THEN LET a == ToClientMsg("parent", "bridge-ready", 0, "", <<>>) IN
          /\ toClient' = toClient \cup {a}
          /\ bev' = [NoBev EXCEPT !.op = "host", !.type = m.type, !.src = m.src,
                                  !.origin = m.origin, !.id = m.id,
                                  !.accepted = TRUE, !.replies = {a}]
          /\ UNCHANGED <<hops, hstore, hreplies>>
     ELSE IF hostChrome
     THEN /\ hops' = hops \cup {m}
          /\ bev' = [NoBev EXCEPT !.op = "host", !.type = m.type, !.src = m.src,
                                  !.origin = m.origin, !.id = m.id,
                                  !.accepted = TRUE, !.touched = TRUE]
          /\ UNCHANGED <<toClient, hstore, hreplies>>
     ELSE \E threw \in BOOLEAN :
          LET cell == IF threw THEN <<>> ELSE hstore[m.key]
              a == hostReply(m, cell) IN
          /\ hstore' = IF m.type = "storage-set" /\ ~threw
                       THEN [hstore EXCEPT ![m.key] = <<m.val>>] ELSE hstore
          /\ toClient' = toClient \cup {a}
          /\ hreplies' = Counted(hreplies, a.id)
          /\ bev' = [NoBev EXCEPT !.op = "host", !.type = m.type, !.src = m.src,
                                  !.origin = m.origin, !.id = m.id,
                                  !.key = m.key, !.val = m.val,
                                  !.accepted = TRUE, !.touched = TRUE,
                                  !.failed = threw, !.replies = {a}]
          /\ UNCHANGED hops
  /\ UNCHANGED <<bc, bcall, hostChrome>>
  /\ UNCHANGED <<otaVars, semverVars, storeVars, lateVars>>

\* a message of the client arrives
HostReceive == \E m \in toHost : HostHandle(m)

\* messages the client has not posted: anything from a window that is not
\* the frame's, and anything the frame's window posts while it holds a
\* document of another origin than REMOTE_APP_URL's
StrayToHost ==
  {ToHostMsg(w[1], w[2], t, 0, k, "b") :
     w \in {<<"other", "remote">>, <<"frame", "other">>},
     t \in {"iframe-ready", "storage-get", "storage-set"},
     k \in {"timezone_config"}}

HostStray ==
  \E m \in StrayToHost :
    /\ hreplies[0] = 0 /\ \A o \in hops : o.id # 0
    /\ HostHandle(m)

\* chrome.storage.sync calls the host back: the read or write is done (or
\* has failed) and the response is posted; a write that changed the store
\* is also announced by chrome.storage.onChanged
HostOpDone ==
  \E o \in hops, failed \in BOOLEAN :
    LET cell == IF failed THEN <<>> ELSE hstore[o.key]
        a == hostReply(o, cell)
        wrote == o.type = "storage-set" /\ ~failed /\ hstore[o.key] # <<o.val>>
        ch == ToClientMsg("parent", "storage-changed", 0, o.key, <<o.val>>) IN
    /\ hops' = hops \ {o}
    /\ hstore' = IF o.type = "storage-set" /\ ~failed
                 THEN [hstore EXCEPT ![o.key] = <<o.val>>] ELSE hstore
    /\ toClient' = toClient \cup {a} \cup (IF wrote THEN {ch} ELSE {})
    /\ hreplies' = Counted(hreplies, a.id)
    /\ bev' = [NoBev EXCEPT !.op = "hostdone", !.type = o.type, !.src = o.src,
                            !.origin = o.origin, !.id = o.id, !.key = o.key,
                            !.val = o.val, !.accepted = TRUE, !.touched = TRUE,
                            !.failed = failed, !.replies = {a}]
    /\ UNCHANGED <<bc, bcall, toHost, hostChrome>>
    /\ UNCHANGED <<otaVars, semverVars, storeVars, lateVars>>

\* the store is changed from elsewhere (another page, another device):
\* chrome.storage.onChanged fires in the shell, which forwards it
StoreChanged ==
  \E k \in {"timezone_config"}, v \in BridgeValues :
    /\ hostChrome
    /\ hstore[k] # <<v>>
    /\ hstore' = [hstore EXCEPT ![k] = <<v>>]
    /\ toClient' = toClient \cup
                     {ToClientMsg("parent", "storage-changed", 0, k, <<v>>)}
    /\ bev' = [NoBev EXCEPT !.op = "changed"]
    /\ UNCHANGED <<bc, bcall, toHost, hops, hostChrome, hreplies>>
    /\ UNCHANGED <<otaVars, semverVars, storeVars, lateVars>>

\* no frame is shown
BridgeIdle ==
  /\ bc = NoClient
  /\ bcall = [i \in CallIds |-> NoCall]
  /\ toHost = {}
  /\ hops = {}
  /\ toClient = {}
  /\ hstore = [k \in StoreKeys |-> <<>>]
  /\ hostChrome = TRUE
  /\ hreplies = [i \in 0..MaxCalls |-> 0]
  /\ bev = NoBev

\* ------------------------------------------------- one precache attempt
\* precacheRemoteApp(): a hidden iframe on the remote app, a timeout, and a
\* promise resolved by done(success)
\* running: the promise's executor has run; settled, timer, due: the local
\* `settled` and the timeout; cleanup, cleanDue: the timer of
\* setTimeout(cleanup, 1_000); attached: the iframe is in the document;
\* outcome: what the promise resolved with; resolves: calls of resolve() (up
\* to 2); now: the clock
NoAttempt ==
  [running |-> FALSE, settled |-> FALSE, timer |-> FALSE, due |-> 0,
   cleanup |-> FALSE, cleanDue |-> 0, attached |-> FALSE, outcome |-> <<>>,
   resolves |-> 0, now |-> 0]
NoAev == [op |-> "init", success |-> FALSE, ran |-> FALSE]

PrecacheHorizon == PRECACHE_TIMEOUT_MS + 3 * CLEANUP_DELAY_MS
PrecacheInstants ==
  {k * CLEANUP_DELAY_MS : k \in 0..(PrecacheHorizon \div CLEANUP_DELAY_MS)}

\* variant: no settled guard, a later signal reports again
done_noGuard(a, success) ==
  [a EXCEPT !.settled = TRUE, !.timer = FALSE, !.due = 0,
            !.cleanup = TRUE, !.cleanDue = a.now + CLEANUP_DELAY_MS,
            !.outcome = <<success>>,
            !.resolves = Min(a.resolves + 1, 2)]

\* done(success): if (settled) return; settled = true; clearTimeout(timeout);
\* setTimeout(cleanup, 1_000); resolve(success)
done(a, success) ==
  IF a.settled THEN a
  ELSE [a EXCEPT !.settled = TRUE, !.timer = FALSE, !.due = 0,
                 !.cleanup = TRUE, !.cleanDue = a.now + CLEANUP_DELAY_MS,
                 !.outcome = <<success>>,
                 !.resolves = Min(a.resolves + 1, 2)]

\* cleanup(): if (iframe.parentNode) iframe.parentNode.removeChild(iframe)
cleanup(a) == [a EXCEPT !.attached = FALSE]

\* the executor: timeout armed, listeners added, src set, iframe appended
PrecacheStart ==
  /\ ~att.running
  /\ att.now + PRECACHE_TIMEOUT_MS + CLEANUP_DELAY_MS <= PrecacheHorizon
  /\ att' = [att EXCEPT !.running = TRUE, !.timer = TRUE,
                        !.due = att.now + PRECACHE_TIMEOUT_MS,
                        !.attached = TRUE]
  /\ aev' = [NoAev EXCEPT !.op = "start"]
  /\ UNCHANGED <<otaVars, semverVars, storeVars, bridgeVars, swVars, writeVars>>

\* the iframe signals load (success) or error; a document in the frame may
\* load more than once, and either signal may follow the other
PrecacheSignal(success) ==
  /\ att.running /\ att.attached
  /\ att' = done(att, success)
  /\ aev' = [NoAev EXCEPT !.op = IF success THEN "load" ELSE "error",
                          !.success = success, !.ran = ~att.settled]
  /\ UNCHANGED <<otaVars, semverVars, storeVars, bridgeVars, swVars, writeVars>>

\* the timeout fires: done(false)
PrecacheTimeout ==
  /\ att.timer /\ att.now >= att.due
  /\ att' = done([att EXCEPT !.timer = FALSE, !.due = 0], FALSE)
  /\ aev' = [NoAev EXCEPT !.op = "timeout", !.ran = ~att.settled]
  /\ UNCHANGED <<otaVars, semverVars, storeVars, bridgeVars, swVars, writeVars>>

\* the timer of setTimeout(cleanup, 1_000) fires
PrecacheCleanup ==
  /\ att.cleanup /\ att.now >= att.cleanDue
  /\ att' = cleanup([att EXCEPT !.cleanup = FALSE, !.cleanDue = 0])
  /\ aev' = [NoAev EXCEPT !.op = "cleanup"]
  /\ UNCHANGED <<otaVars, semverVars, storeVars, bridgeVars, swVars, writeVars>>

\* time passes; a timer that is due runs before the clock moves on (the
\* clock's window leaves room for the cleanup delay of an open attempt)
PrecacheTick(to) ==
  /\ to > att.now
  /\ att.settled \/ to + CLEANUP_DELAY_MS <= PrecacheHorizon
  /\ ~(att.timer /\ att.due <= att.now)
  /\ ~(att.cleanup /\ att.cleanDue <= att.now)
  /\ att' = [att EXCEPT !.now = to]
  /\ aev' = [NoAev EXCEPT !.op = "tick"]
  /\ UNCHANGED <<otaVars, semverVars, storeVars, bridgeVars, swVars, writeVars>>

PrecacheIdle ==
  /\ att = NoAttempt
  /\ aev = NoAev

\* ------------------------------------- service worker of the remote app
MANIFEST_PATH == "/version.json"
CACHE_NAME == "daybound-v1"
PRECACHE_URLS == {"/", "/index.html"}
\* paths requested of the remote origin
Paths == {MANIFEST_PATH, "/", "/index.html", "/app.js"}
NoEntry == <<>>
\* caches: the worker's own, and one an earlier worker left under another
\* name; phase: the worker's life cycle
NoCaches ==
  [phase |-> "parsed",
   own |-> [q \in Paths |-> NoEntry],
   old |-> [q \in Paths |-> NoEntry]]
NoSwev ==
  [op |-> "init", path |-> "", from |-> "", answered |-> <<>>, had |-> FALSE,
   got |-> <<>>, put |-> FALSE]

\* what the network may answer for a path while deployment d is live: the
\* file, a 404, or a response that is not of type "basic"
Ok(d) == [status |-> 200, type |-> "basic", body |-> d]
Answers(d) ==
  {Ok(d), [status |-> 404, type |-> "basic", body |-> 0],
   [status |-> 200, type |-> "opaque", body |-> d]}

\* variant: no path is the manifest's
isManifest_none(q) == FALSE

\* url.pathname === "/version.json"
isManifest(q) == q = MANIFEST_PATH

\* variant: every response is stored
cacheable_any(r) == TRUE

\* response && response.status === 200 && response.type === "basic"
cacheable(r) == r.status = 200 /\ r.type = "basic"

\* install: cache.addAll(PRECACHE_URLS), all entries or none, then
\* skipWaiting()
SwInstall ==
  /\ cache.phase = "parsed"
  /\ \E ok \in BOOLEAN :
       /\ cache' = IF ok
                   THEN [cache EXCEPT !.phase = "installed",
                                      !.own = [q \in Paths |->
                                                 IF q \in PRECACHE_URLS THEN <<Ok(server)>>
                                                 ELSE cache.own[q]]]
                   ELSE cache
       /\ swev' = [NoSwev EXCEPT !.op = "install", !.put = ok]
  /\ UNCHANGED <<server, refetch>>
  /\ UNCHANGED <<otaVars, semverVars, storeVars, bridgeVars, precacheVars, writeVars>>

\* activate: every cache whose name is not CACHE_NAME is deleted, then
\* clients.claim()
SwActivate ==
  /\ cache.phase = "installed"
  /\ cache' = [cache EXCEPT !.phase = "active", !.old = [q \in Paths |-> NoEntry]]
  /\ swev' = [NoSwev EXCEPT !.op = "activate"]
  /\ UNCHANGED <<server, refetch>>
  /\ UNCHANGED <<otaVars, semverVars, storeVars, bridgeVars, precacheVars, writeVars>>

\* fetch event for path q.  The manifest: respondWith(fetch(request)), the
\* network's answer or its failure (got = <<>>).  Any other path:
\* caches.match, the refetch started, and the cached response returned if
\* there is one (else the page waits for the refetch)
SwFetch(q) ==
  /\ cache.phase = "active"
  /\ \A f \in refetch : f.path # q
  /\ IF isManifest(q)
     THEN /\ \E got \in {<<r>> : r \in Answers(server)} \cup {<<>>} :
               swev' = [NoSwev EXCEPT !.op = "fetch", !.path = q, !.from = "network",
                                      !.answered = got, !.got = got]
          /\ UNCHANGED refetch
     ELSE LET cached == cache.own[q] IN
          /\ refetch' = refetch \cup {[path |-> q, waiting |-> cached = NoEntry]}
          /\ swev' = [NoSwev EXCEPT !.op = "fetch", !.path = q,
                                    !.from = IF cached = NoEntry THEN "" ELSE "cache",
                                    !.answered = cached, !.had = cached # NoEntry]
  /\ UNCHANGED <<cache, server>>
  /\ UNCHANGED <<otaVars, semverVars, storeVars, bridgeVars, precacheVars, writeVars>>

\* the refetch of f.path ends: with a response (stored by cache.put if it is
\* cacheable) or with a network failure (got = <<>>, caught); a page that
\* was waiting is answered with the response, or with nothing on a failure
SwRefetchDone(f, got) ==
  /\ f \in refetch
  /\ LET store == got # <<>> /\ cacheable(got[1]) IN
     /\ cache' = IF store THEN [cache EXCEPT !.own[f.path] = got] ELSE cache
     /\ swev' = [NoSwev EXCEPT !.op = "refetched", !.path = f.path,
                               !.from = IF f.waiting THEN "network" ELSE "",
                               !.answered = IF f.waiting THEN got ELSE <<>>,
                               !.had = cache.own[f.path] # NoEntry,
                               !.got = got, !.put = store]
  /\ refetch' = refetch \ {f}
  /\ UNCHANGED server
  /\ UNCHANGED <<otaVars, semverVars, storeVars, bridgeVars, precacheVars, writeVars>>

SwRefetchEnd ==
  \E f \in refetch :
    \E got \in {<<r>> : r \in Answers(server)} \cup {<<>>} : SwRefetchDone(f, got)

\* new files are deployed to the server
SwDeploy ==
  /\ server < MaxDeploys
  /\ server' = server + 1
  /\ swev' = [NoSwev EXCEPT !.op = "deploy"]
  /\ UNCHANGED <<cache, refetch>>
  /\ UNCHANGED <<otaVars, semverVars, storeVars, bridgeVars, precacheVars, writeVars>>

SwIdle ==
  /\ cache = NoCaches
  /\ server = 1
  /\ refetch = {}
  /\ swev = NoSwev

\* ------------------------------------------ two tabs writing one key
\* each tab runs usePersistentState on the same key over the same backend:
\* chrome.storage.sync (directly, or behind each tab's bridge host) or the
\* origin's localStorage
WriteTabs == {1, 2}
\* the value of tab t's n-th setValue: a list of zones no other call writes
WrittenBy(t, n) == {<<t, n>>}
StoredBefore == {<<0, 0>>}
\* value: the hook's state; sets: setValue calls so far; out: writes sent
\* to the backend and not yet carried out; warned: rejections logged
NoWpage == [value |-> {}, sets |-> 0, out |-> <<>>, warned |-> 0]
NoWstore == [kind |-> "local", init |-> <<>>, value |-> <<>>, last |-> <<>>]
NoWev == [op |-> "init", tab |-> 0, val |-> {}, ok |-> FALSE]

\* variant: the backend adds the written zones to the stored ones
applyWrite_merge(old, v) == IF old = <<>> THEN <<v>> ELSE <<old[1] \cup v>>

\* chrome.storage.sync.set({[key]: value}) / localStorage.setItem(key,
\* JSON.stringify(value)): the key's value is replaced
applyWrite(old, v) == <<v>>

\* setValue(v) in tab t: setState(v), then storageSet: localStorage is
\* written (or throws, which the catch logs) before setValue returns;
\* chrome.storage.sync is asked, directly or by the bridge host
WSetValue(t) ==
  /\ wpage[t].sets < MaxSets
  /\ LET v == WrittenBy(t, wpage[t].sets + 1) IN
     IF wstore.kind = "local"
     THEN \E ok \in BOOLEAN :
            /\ wpage' = [wpage EXCEPT ![t].value = v, ![t].sets = @ + 1,
                                      ![t].warned = IF ok THEN @ ELSE Min(@ + 1, MaxSets)]
            /\ wstore' = IF ok
                         THEN [wstore EXCEPT !.value = applyWrite(wstore.value, v),
                                             !.last = <<v>>]
                         ELSE wstore
            /\ wev' = [NoWev EXCEPT !.op = "set", !.tab = t, !.val = v, !.ok = ok]
     ELSE /\ wpage' = [wpage EXCEPT ![t].value = v, ![t].sets = @ + 1,
                                    ![t].out = Append(@, v)]
          /\ wev' = [NoWev EXCEPT !.op = "set", !.tab = t, !.val = v, !.ok = TRUE]
          /\ UNCHANGED wstore
  /\ UNCHANGED <<otaVars, semverVars, storeVars, bridgeVars, precacheVars, swVars>>

\* chrome.storage.sync carries out the oldest write of tab t, or refuses it
\* (quota): nobody reads lastError, and the bridge host acknowledges anyway
WComplete(t) ==
  /\ wpage[t].out # <<>>
  /\ LET v == Head(wpage[t].out) IN
     \E ok \in BOOLEAN :
       /\ wstore' = IF ok
                    THEN [wstore EXCEPT !.value = applyWrite(wstore.value, v),
                                        !.last = <<v>>]
                    ELSE wstore
       /\ wpage' = [wpage EXCEPT ![t].out = Tail(@)]
       /\ wev' = [NoWev EXCEPT !.op = "complete", !.tab = t, !.val = v, !.ok = ok]
  /\ UNCHANGED <<otaVars, semverVars, storeVars, bridgeVars, precacheVars, swVars>>

WriteIdle ==
  /\ wpage = [t \in WriteTabs |-> NoWpage]
  /\ wstore = NoWstore
  /\ wev = NoWev

LateIdle == PrecacheIdle /\ SwIdle /\ WriteIdle

\* ------------------------------------------- storage strategy of one page
\* _strategy: "null" | "chrome" | "bridge" | "local"
\* _bridgeReady: "null" | "pending" | "true" | "false" (the promise's state)
\* client: the singleton StorageBridgeClient exists (it announced itself to
\*   the parent when constructed); ready: its ready flag
\* timer: the 500 ms timer of waitForReady(): "none" | "armed" | "fired"
\* acked: the host's bridge-ready message has been delivered
\* detects, calls: how often detectStorageStrategy() and getStrategy() have
\*   run (counted up to 2); downgraded: the handshake has failed
\* waited: ms since waitForReady() armed its timer; ackAt: what waited was
\*   when the acknowledgment was delivered (-1: not yet); sets: setValue()
\*   calls so far; clients, waits: how many StorageBridgeClients were
\*   constructed and how many waitForReady() calls were made (up to 2)
NoProc ==
  [strategy |-> "null", bridgeReady |-> "null", client |-> FALSE, ready |-> FALSE,
   timer |-> "none", acked |-> FALSE, detects |-> 0, calls |-> 0,
   downgraded |-> FALSE, waited |-> 0, ackAt |-> -1, sets |-> 0,
   clients |-> 0, waits |-> 0]
NoLoad == [pc |-> "idle", strategy |-> "null"]
\* val: the value set or written; found: what the read returned; threw: the
\* read or write raised; sent: a request went over the bridge in this step
NoPev ==
  [op |-> "init", key |-> "", ret |-> "null", was |-> "null", val |-> "",
   found |-> <<>>, threw |-> FALSE, sent |-> FALSE]

\* useState(initialValue), useState(true)
InitialValue == "initial"
NoHook == [value |-> InitialValue, loading |-> TRUE]
StoredValues == {"old"}
NewValues == {"new"}

hasChromeStorage(e) == e.chrome
isInsideIframe(e) == e.iframe

detectStorageStrategy(e) ==
  IF hasChromeStorage(e) THEN "chrome"
  ELSE IF isInsideIframe(e) THEN "bridge"
  ELSE "local"

\* variant: nothing is memoized, every call detects again
getStrategy_noMemo(p, e) ==
  LET d == detectStorageStrategy(e) IN
  [ret |-> d,
   p |-> [p EXCEPT !.strategy = d, !.detects = Min(p.detects + 1, 2),
                   !.calls = Min(p.calls + 1, 2)]]

\* getStrategy(): detect on the first call, the memoized value afterwards
getStrategy(p, e) ==
  IF p.strategy = "null"
  THEN LET d == detectStorageStrategy(e) IN
       [ret |-> d,
        p |-> [p EXCEPT !.strategy = d, !.detects = Min(p.detects + 1, 2),
                        !.calls = Min(p.calls + 1, 2)]]
  ELSE [ret |-> p.strategy, p |-> [p EXCEPT !.calls = Min(p.calls + 1, 2)]]

\* getStorageBridgeClient(): the singleton, constructed on first use
getStorageBridgeClient(p) ==
  IF p.client THEN p
  ELSE [p EXCEPT !.client = TRUE, !.clients = Min(p.clients + 1, 2)]

\* variant: the promise is not cached, every call waits for itself
ensureBridge_noCache(p) ==
  [getStorageBridgeClient(p) EXCEPT
     !.bridgeReady = IF p.ready THEN "true"
                     ELSE IF p.bridgeReady = "false" THEN "false" ELSE "pending",
     !.timer = "armed", !.waits = Min(p.waits + 1, 2)]

\* ensureBridge(), up to its await: on the first call the client is fetched
\* and waitForReady() races the ready promise against a 500 ms timer (an
\* acknowledgment that is already in wins the race at once)
ensureBridge(p) ==
  IF p.bridgeReady # "null" THEN p
  ELSE [getStorageBridgeClient(p) EXCEPT
          !.bridgeReady = IF p.ready THEN "true" ELSE "pending",
          !.timer = "armed", !.waits = Min(p.waits + 1, 2)]

\* variant: the timer's rejection leaves _strategy alone
handshakeTimeout_keepStrategy(p) ==
  IF p.bridgeReady = "pending"
  THEN [p EXCEPT !.timer = "fired", !.bridgeReady = "false", !.downgraded = TRUE]
  ELSE [p EXCEPT !.timer = "fired"]

\* the 500 ms timer rejects the race; if the race is still open the catch of
\* ensureBridge() sets _strategy = "local" and the promise resolves to false
handshakeTimeout(p) ==
  IF p.bridgeReady = "pending"
  THEN [p EXCEPT !.timer = "fired", !.bridgeReady = "false", !.strategy = "local",
                 !.downgraded = TRUE]
  ELSE [p EXCEPT !.timer = "fired"]

\* variant: a late acknowledgment switches the strategy back to "bridge"
handleBridgeReady_revive(p) ==
  [p EXCEPT !.ready = TRUE, !.acked = TRUE, !.strategy = "bridge",
            !.bridgeReady = IF p.bridgeReady = "pending" THEN "true"
                            ELSE IF p.bridgeReady = "false" THEN "true"
                            ELSE p.bridgeReady]

\* handleMessage on "daybound-bridge-ready": ready = true, readyResolve(); a
\* race that is still open resolves and ensureBridge() returns true
handleBridgeReady(p) ==
  [p EXCEPT !.ready = TRUE, !.acked = TRUE,
            !.bridgeReady = IF p.bridgeReady = "pending" THEN "true"
                            ELSE p.bridgeReady]

\* variant: a read that throws skips the end of load()
finishLoad_noFinally(h, found, threw) ==
  [value |-> IF ~threw /\ found # Absent THEN found[1] ELSE h.value,
   loading |-> IF threw THEN h.loading ELSE FALSE]

\* the end of load(): setState(loadedValue) if the read returned a value,
\* nothing if it returned null or threw; finally setLoading(false)
finishLoad(h, found, threw) ==
  [value |-> IF ~threw /\ found # Absent THEN found[1] ELSE h.value,
   loading |-> FALSE]

\* load() from storageGet() on, with the strategy it ended up with: the
\* "local" case reads localStorage at once and load() ends within the same
\* task; the other cases send a request and wait for the answer
startRead(k, strat, threw) ==
  IF strat = "local"
  THEN [load |-> [pc |-> "done", strategy |-> strat],
        hook |-> finishLoad(hook[k], back.local[k], threw),
        found |-> IF threw THEN Absent ELSE back.local[k]]
  ELSE [load |-> [pc |-> "reading", strategy |-> strat],
        hook |-> hook[k], found |-> Absent]

\* the hook's effect runs load(): getStrategy(), ensureBridge() when bridged;
\* it stops at the await while the handshake is open and goes on to the read
\* otherwise (localStorage.getItem or JSON.parse may throw)
LoadStart(k) ==
  /\ load[k].pc = "idle"
  /\ \E threw \in BOOLEAN :
     LET g == getStrategy(proc, env)
         p1 == IF g.ret = "bridge" THEN ensureBridge(g.p) ELSE g.p
         strat == IF g.ret # "bridge" THEN g.ret
                  ELSE IF p1.bridgeReady = "true" THEN "bridge" ELSE "local"
         r == startRead(k, strat, threw)
         waits == g.ret = "bridge" /\ p1.bridgeReady = "pending" IN
     /\ threw => (~waits /\ strat = "local")
     /\ proc' = p1
     /\ load' = [load EXCEPT ![k] =
                   IF waits THEN [pc |-> "waiting", strategy |-> g.ret] ELSE r.load]
     /\ hook' = [hook EXCEPT ![k] = IF waits THEN hook[k] ELSE r.hook]
     /\ pev' = [NoPev EXCEPT !.op = "load", !.key = k, !.ret = g.ret,
                             !.was = proc.strategy, !.threw = threw,
                             !.found = IF waits THEN Absent ELSE r.found,
                             !.sent = ~waits /\ strat = "bridge"]
  /\ UNCHANGED <<env, back, inflight>>
  /\ UNCHANGED <<otaVars, semverVars, bridgeVars, lateVars>>

\* ensureBridge() has resolved: load() goes on with "bridge" or with "local"
LoadResume(k) ==
  /\ load[k].pc = "waiting"
  /\ proc.bridgeReady \in {"true", "false"}
  /\ \E threw \in BOOLEAN :
     LET strat == IF proc.bridgeReady = "true" THEN "bridge" ELSE "local"
         r == startRead(k, strat, threw) IN
     /\ threw => strat = "local"
     /\ load' = [load EXCEPT ![k] = r.load]
     /\ hook' = [hook EXCEPT ![k] = r.hook]
     /\ pev' = [NoPev EXCEPT !.op = "resume", !.key = k, !.ret = strat,
                             !.was = proc.strategy, !.threw = threw,
                             !.found = r.found, !.sent = strat = "bridge"]
  /\ UNCHANGED <<env, proc, back, inflight>>
  /\ UNCHANGED <<otaVars, semverVars, bridgeVars, lateVars>>

\* chrome.storage.sync has answered the read, directly or through the host,
\* and load() ends; a failed read answers with nothing
LoadDone(k) ==
  /\ load[k].pc = "reading"
  /\ load[k].strategy = "bridge" => env.host
  /\ \E failed \in BOOLEAN :
     LET found == IF failed THEN Absent ELSE back.sync[k] IN
     /\ load' = [load EXCEPT ![k].pc = "done"]
     /\ hook' = [hook EXCEPT ![k] = finishLoad(hook[k], found, FALSE)]
     /\ pev' = [NoPev EXCEPT !.op = "loaded", !.key = k, !.ret = load[k].strategy,
                             !.was = proc.strategy, !.found = found]
  /\ UNCHANGED <<env, proc, back, inflight>>
  /\ UNCHANGED <<otaVars, semverVars, bridgeVars, lateVars>>

\* variant: setValue() leaves the state to the write's completion
SetValue_noSetState(k) ==
  /\ load[k].pc # "idle"
  /\ proc.sets < MaxSets
  /\ \E v \in NewValues, threw \in BOOLEAN :
     LET g == getStrategy(proc, env)
         p1 == IF g.ret = "bridge" THEN getStorageBridgeClient(g.p) ELSE g.p IN
     /\ threw => g.ret = "local"
     /\ proc' = [p1 EXCEPT !.sets = p1.sets + 1]
     /\ hook' = hook
     /\ back' = IF g.ret = "local" /\ ~threw
                THEN [back EXCEPT !.local[k] = <<v>>] ELSE back
     /\ inflight' = IF g.ret = "local" THEN inflight
                    ELSE Append(inflight, [key |-> k, val |-> v, via |-> g.ret])
     /\ pev' = [NoPev EXCEPT !.op = "set", !.key = k, !.ret = g.ret,
                             !.was = proc.strategy, !.val = v, !.threw = threw,
                             !.sent = g.ret = "bridge"]
  /\ UNCHANGED <<env, load>>
  /\ UNCHANGED <<otaVars, semverVars, bridgeVars, lateVars>>

\* setValue(): setState(newValue), getStrategy(), then storageSet() with what
\* it returned: "local" writes localStorage at once (setItem may throw, the
\* catch logs it), "chrome" hands the write to chrome.storage.sync, "bridge"
\* fetches the client and posts the set request
SetValue(k) ==
  /\ load[k].pc # "idle"
  /\ proc.sets < MaxSets
  /\ \E v \in NewValues, threw \in BOOLEAN :
     LET g == getStrategy(proc, env)
         p1 == IF g.ret = "bridge" THEN getStorageBridgeClient(g.p) ELSE g.p IN
     /\ threw => g.ret = "local"
     /\ proc' = [p1 EXCEPT !.sets = p1.sets + 1]
     /\ hook' = [hook EXCEPT ![k].value = v]
     /\ back' = IF g.ret = "local" /\ ~threw
                THEN [back EXCEPT !.local[k] = <<v>>] ELSE back
     /\ inflight' = IF g.ret = "local" THEN inflight
                    ELSE Append(inflight, [key |-> k, val |-> v, via |-> g.ret])
     /\ pev' = [NoPev EXCEPT !.op = "set", !.key = k, !.ret = g.ret,
                             !.was = proc.strategy, !.val = v, !.threw = threw,
                             !.sent = g.ret = "bridge"]
  /\ UNCHANGED <<env, load>>
  /\ UNCHANGED <<otaVars, semverVars, bridgeVars, lateVars>>

\* chrome.storage.sync carries out the oldest write it was sent (a write sent
\* over the bridge needs the host to pass it on); it may fail, which nobody
\* is told
WriteDone ==
  /\ inflight # <<>>
  /\ Head(inflight).via = "bridge" => env.host
  /\ \E failed \in BOOLEAN :
     LET w == Head(inflight) IN
     /\ back' = IF failed THEN back ELSE [back EXCEPT !.sync[w.key] = <<w.val>>]
     /\ pev' = [NoPev EXCEPT !.op = "written", !.key = w.key, !.ret = w.via,
                             !.was = proc.strategy, !.val = w.val,
                             !.threw = failed]
  /\ inflight' = Tail(inflight)
  /\ UNCHANGED <<env, proc, load, hook>>
  /\ UNCHANGED <<otaVars, semverVars, bridgeVars, lateVars>>

\* the host in the parent answers the client's announcement
HostAck ==
  /\ env.host
  /\ proc.client
  /\ ~proc.acked
  /\ proc' = [handleBridgeReady(proc) EXCEPT !.ackAt = proc.waited]
  /\ pev' = [NoPev EXCEPT !.op = "ack", !.ret = proc'.strategy,
                          !.was = proc.strategy]
  /\ UNCHANGED <<env, load, hook, back, inflight>>
  /\ UNCHANGED <<otaVars, semverVars, bridgeVars, lateVars>>

\* the timer of waitForReady() fires once its 500 ms are over
HandshakeTimeout ==
  /\ proc.timer = "armed"
  /\ proc.waited >= HANDSHAKE_TIMEOUT
  /\ proc' = handshakeTimeout(proc)
  /\ pev' = [NoPev EXCEPT !.op = "timeout", !.ret = proc'.strategy,
                          !.was = proc.strategy]
  /\ UNCHANGED <<env, load, hook, back, inflight>>
  /\ UNCHANGED <<otaVars, semverVars, bridgeVars, lateVars>>

\* time passes while the timer of waitForReady() is armed
StoreTick ==
  /\ proc.timer = "armed"
  /\ proc.waited < HANDSHAKE_TIMEOUT
  /\ proc' = [proc EXCEPT !.waited = proc.waited + HandshakeStep]
  /\ pev' = [NoPev EXCEPT !.op = "tick", !.ret = proc.strategy,
                          !.was = proc.strategy]
  /\ UNCHANGED <<env, load, hook, back, inflight>>
  /\ UNCHANGED <<otaVars, semverVars, bridgeVars, lateVars>>

NoBack ==
  [sync |-> [k \in StoreKeys |-> Absent], local |-> [k \in StoreKeys |-> Absent]]

\* no page of the app is looked at
StoreIdle ==
  /\ env = [chrome |-> TRUE, iframe |-> FALSE, host |-> FALSE]
  /\ proc = NoProc
  /\ load = [k \in StoreKeys |-> NoLoad]
  /\ pev = NoPev
  /\ hook = [k \in StoreKeys |-> NoHook]
  /\ back = NoBack
  /\ inflight = <<>>

Cells == {Absent} \cup {<<v>> : v \in StoredValues}

\* a page of the app starts in any surroundings: extension page, remote app
\* in the shell's frame, remote app in a foreign frame, standalone web page;
\* the backends hold whatever earlier pages left in them
StoreInit ==
  /\ OtaInit
  /\ SemverIdle
  /\ BridgeIdle
  /\ LateIdle
  /\ env \in {e \in [chrome : BOOLEAN, iframe : BOOLEAN, host : BOOLEAN] :
                e.host => e.iframe}
  /\ proc = NoProc
  /\ load = [k \in StoreKeys |-> NoLoad]
  /\ pev = NoPev
  /\ hook = [k \in StoreKeys |-> NoHook]
  /\ \E c1 \in Cells, c2 \in Cells :
       back = [sync |-> [k \in StoreKeys |-> c1], local |-> [k \in StoreKeys |-> c2]]
  /\ inflight = <<>>

StoreNext ==
  \/ \E k \in StoreKeys : LoadStart(k)
  \/ \E k \in StoreKeys : LoadResume(k)
  \/ \E k \in StoreKeys : LoadDone(k)
  \/ \E k \in StoreKeys : SetValue(k)
  \/ WriteDone
  \/ HostAck
  \/ HandshakeTimeout
  \/ StoreTick

StoreSpec == StoreInit /\ [][StoreNext]_vars

\* every started step of a page is eventually taken: promises, timers and
\* storage callbacks all run
FairStoreSpec ==
  /\ StoreSpec
  /\ \A k \in StoreKeys : WF_vars(LoadResume(k)) /\ WF_vars(LoadDone(k))
  /\ WF_vars(HandshakeTimeout)
  /\ WF_vars(StoreTick)

\* the shell has put the remote app into its frame; the store holds what
\* earlier pages left in it
BridgeInit ==
  /\ OtaInit
  /\ SemverIdle
  /\ StoreIdle
  /\ LateIdle
  /\ bc = NoClient
  /\ bcall = [i \in CallIds |-> NoCall]
  /\ toHost = {}
  /\ hops = {}
  /\ toClient = {}
  /\ hstore = [k \in StoreKeys |-> IF k = "timezone_config" THEN <<"a">> ELSE <<>>]
  /\ hostChrome \in BOOLEAN
  /\ hreplies = [i \in 0..MaxCalls |-> 0]
  /\ bev = NoBev

\* requests and responses
BridgeNext ==
  \/ ClientMake
  \/ \E k \in StoreKeys : ClientCall("get", k, "")
  \/ \E v \in BridgeValues : ClientCall("set", "timezone_config", v)
  \/ ClientReceive
  \/ ClientUnknown
  \/ ClientDuplicate
  \/ HostReceive
  \/ HostStray
  \/ HostOpDone

BridgeSpec == BridgeInit /\ [][BridgeNext]_vars

\* what reaches the client: change events and their listeners, messages of
\* other windows, with a request of the client open
ListenNext ==
  \/ ClientMake
  \/ ClientCall("get", "timezone_config", "")
  \/ \E l \in Listeners : Subscribe(l)
  \/ \E l \in Listeners : Unsubscribe(l)
  \/ ClientReceive
  \/ ClientStray
  \/ HostReceive
  \/ HostOpDone
  \/ StoreChanged

ListenSpec == BridgeInit /\ [][ListenNext]_vars

\* the life of the client: made, used, destroyed, made again
TeardownNext ==
  \/ ClientMake
  \/ ClientCall("get", "timezone_config", "")
  \/ ClientCall("set", "timezone_config", "b")
  \/ ClientReceive
  \/ ClientDestroy
  \/ HostReceive
  \/ HostOpDone

TeardownSpec == BridgeInit /\ [][TeardownNext]_vars

\* ----------------------------------------------- one tab and its bridge host
\* a message event at the window of shell.html: the host's listener runs if
\* the remote branch installed it; on the fast path nothing listens
ShellWindowMessages ==
  StrayToHost \cup
  {ToHostMsg("frame", "remote", t, 0, "timezone_config", "b") :
     t \in {"iframe-ready", "storage-get", "storage-set"}}

ShellMessage ==
  /\ tab[1].pc \in {"shell", "navigating"}
  /\ hreplies[0] = 0 /\ \A o \in hops : o.id # 0   \* one request at a time
  /\ bev.op # "nohost"                               \* one unheard message
  /\ \E m \in ShellWindowMessages :
       IF tab[1].hasFrame
       THEN HostHandle(m)
       ELSE /\ bev' = [NoBev EXCEPT !.op = "nohost", !.type = m.type,
                                    !.src = m.src, !.origin = m.origin]
            /\ UNCHANGED <<bc, bcall, toHost, hops, toClient, hstore, hostChrome,
                           hreplies>>
            /\ UNCHANGED <<otaVars, semverVars, storeVars, lateVars>>

\* chrome.storage.sync calls back into the shell page while it is there
ShellOpDone ==
  /\ tab[1].pc \in {"shell", "navigating"}
  /\ HostOpDone

\* a tab is about to open; localStorage holds what earlier tabs left: the
\* flag set (with the version that was precached) or not, and no failures,
\* two, or three of them just recorded
ShellInit ==
  /\ SemverIdle
  /\ StoreIdle
  /\ BridgeIdle
  /\ LateIdle
  /\ now = 0
  /\ tab = [t \in Tabs |-> NoPage]
  /\ touched = {}
  /\ ev = NoEv
  /\ sinceReset = -1
  /\ clearedSince = FALSE
  /\ \E flag \in BOOLEAN, n \in {0, MAX_FAILURES - 1, MAX_FAILURES} :
       /\ ls = [k \in OtaKeys |->
                  IF k = OTA_USE_REMOTE /\ flag THEN <<"true">>
                  ELSE IF k = OTA_REMOTE_VER /\ flag
                       THEN <<(<<"1", ".", "2", ".", "3">>)>>
                  ELSE IF k = OTA_FAIL_COUNT /\ n > 0 THEN <<n>>
                  ELSE IF k = OTA_FAIL_TS /\ n > 0 THEN <<0>>
                  ELSE Absent]
       /\ fails = n
       /\ blockedAt = IF n = MAX_FAILURES THEN <<0>> ELSE <<>>
       /\ precached = IF flag THEN {<<"1", ".", "2", ".", "3">>} ELSE {}
  /\ prev = ls

ShellNext ==
  \/ \E online \in BOOLEAN : Open(1, online)
  \/ FrameLoad(1)
  \/ FrameError(1)
  \/ TimerFire(1)
  \/ NavigateDone(1)
  \/ ShellMessage
  \/ ShellOpDone
  \/ \E to \in Instants : Tick(to)

ShellSpec == ShellInit /\ [][ShellNext]_vars

\* ------------------------------------------ two tabs writing one key
\* both tabs are loaded; the key is absent or holds what an earlier session
\* stored
WriteInit ==
  /\ OtaInit
  /\ SemverIdle
  /\ StoreIdle
  /\ BridgeIdle
  /\ PrecacheIdle
  /\ SwIdle
  /\ wpage = [t \in WriteTabs |-> NoWpage]
  /\ \E kind \in {"chrome", "bridge", "local"}, was \in {<<>>, <<StoredBefore>>} :
       wstore = [NoWstore EXCEPT !.kind = kind, !.init = was, !.value = was]
  /\ wev = NoWev

WriteNext ==
  \/ \E t \in WriteTabs : WSetValue(t)
  \/ \E t \in WriteTabs : WComplete(t)

WriteSpec == WriteInit /\ [][WriteNext]_vars

\* ------------------------------------- service worker of the remote app
\* the worker's script has been parsed; an earlier worker may have left a
\* cache under another name
SwInit ==
  /\ OtaInit
  /\ SemverIdle
  /\ StoreIdle
  /\ BridgeIdle
  /\ PrecacheIdle
  /\ WriteIdle
  /\ \E stale \in BOOLEAN :
       cache = [NoCaches EXCEPT !.old = [q \in Paths |->
                                           IF stale /\ q = "/app.js"
                                           THEN <<Ok(0)>> ELSE NoEntry]]
  /\ server = 1
  /\ refetch = {}
  /\ swev = NoSwev

SwNext ==
  \/ SwInstall
  \/ SwActivate
  \/ \E q \in Paths : SwFetch(q)
  \/ SwRefetchEnd
  \/ SwDeploy

SwSpec == SwInit /\ [][SwNext]_vars

\* ------------------------------------------------- one precache attempt
PrecacheInit ==
  /\ OtaInit
  /\ SemverIdle
  /\ StoreIdle
  /\ BridgeIdle
  /\ SwIdle
  /\ WriteIdle
  /\ att = NoAttempt
  /\ aev = NoAev

PrecacheNext ==
  \/ PrecacheStart
  \/ \E success \in BOOLEAN : PrecacheSignal(success)
  \/ PrecacheTimeout
  \/ PrecacheCleanup
  \/ \E to \in PrecacheInstants : PrecacheTick(to)

PrecacheSpec == PrecacheInit /\ [][PrecacheNext]_vars

\* timers that are due fire and the clock does not stop
FairPrecacheSpec ==
  /\ PrecacheSpec
  /\ WF_vars(PrecacheTimeout)
  /\ WF_vars(PrecacheCleanup)
  /\ WF_vars(\E to \in PrecacheInstants : PrecacheTick(to))

Init == OtaInit /\ SemverIdle /\ StoreIdle /\ BridgeIdle /\ LateIdle

Next ==
  \/ \E t \in Tabs, online \in BOOLEAN : Open(t, online)
  \/ \E t \in Tabs : FrameLoad(t)
  \/ \E t \in Tabs : FrameError(t)
  \/ \E t \in Tabs : TimerFire(t)
  \/ \E t \in Tabs : NavigateDone(t)
  \/ \E t \in Tabs : RemoteAppMount(t)
  \/ \E t \in Tabs : CheckStart(t)
  \/ \E t \in Tabs : FetchFail(t)
  \/ \E t \in Tabs, v \in ManifestVersions : FetchOK(t, v)
  \/ \E t \in Tabs, success \in BOOLEAN : PrecacheDone(t, success)
  \/ \E t \in Tabs : Close(t)
  \/ \E to \in Instants : Tick(to)

Spec == Init /\ [][Next]_vars

\* the browser runs a timer callback that is due, and time passes
FairSpec ==
  /\ Spec
  /\ \A t \in Tabs : WF_vars(TimerFire(t))
  /\ \A t \in Tabs : WF_vars(CheckStart(t))
  /\ WF_vars(\E to \in Instants : Tick(to))

\* ------------------------------------------------- compareSemver on its own
RECURSIVE Join(_, _)
\* the first n of the pieces ps, joined by "."
Join(ps, n) ==
  IF n = 1 THEN ps[1] ELSE Join(ps, n - 1) \o <<".">> \o ps[n]
VersionsOf(pieces, lens) ==
  {Join(ps, Len(ps)) : ps \in UNION {[1..n -> pieces] : n \in lens}}
AnyVersions == VersionsOf(Pieces, 1..MaxPieces)
ValidVersions == VersionsOf(NumeralPieces, {3})

\* two arbitrary version strings; a third one when both are valid
SemverInit ==
  /\ OtaInit
  /\ StoreIdle
  /\ BridgeIdle
  /\ LateIdle
  /\ sa \in AnyVersions
  /\ sb \in AnyVersions
  /\ sc \in IF sa \in ValidVersions /\ sb \in ValidVersions THEN ValidVersions
            ELSE {sb}
  /\ sr = <<>>

\* the comparisons are made
Compare ==
  /\ sr = <<>>
  /\ sr' = [ab |-> compareSemver(sa, sb), ba |-> compareSemver(sb, sa),
             bc |-> compareSemver(sb, sc), ac |-> compareSemver(sa, sc),
             aa |-> compareSemver(sa, sa)]
  /\ UNCHANGED <<sa, sb, sc>>
  /\ UNCHANGED <<otaVars, storeVars, bridgeVars, lateVars>>

SemverNext == Compare

SemverSpec == SemverInit /\ [][SemverNext]_vars

\* ------------------------------------------------------------ properties
\* what the properties read off a storage state
FlagOf(kv) == kv[OTA_USE_REMOTE] # Absent
CountOf(kv) == IF kv[OTA_FAIL_COUNT] = Absent THEN 0 ELSE kv[OTA_FAIL_COUNT][1]
TsOf(kv) == IF kv[OTA_FAIL_TS] = Absent THEN 0 ELSE kv[OTA_FAIL_TS][1]
\* the last step was a tab open / a settle(false) / a settle(true) that ran
Opened == ev.op = "open"
Failed == ev.op \in {"timer", "error"} /\ ev.ran
Loaded == ev.op = "load" /\ ev.ran
\* the two outcomes of a tab open
Kept(t) == tab[t].pc = "shell" /\ tab[t].settled /\ tab[t].loaderHidden
WentBundled(t) == tab[t].pc \in {"navigating", "bundled"}
FailKeys == {OTA_FAIL_COUNT, OTA_FAIL_TS}
\* what a tab open would do in this state
WouldBlock == isInBackoff(Txn(ls), now).ret
WouldGoFast == \A online \in BOOLEAN : routeDecision(Txn(ls), online, now).fast

\* C1: a tab open takes the fast path (straight to the bundled entry point,
\* no frame, no timer) exactly when the flag was absent, the browser was
\* offline or the tracker reported blocked; otherwise it shows the remote
\* frame and arms the 800 ms timer.
C1_RouterDecision ==
  Opened =>
    /\ ev.fast <=> (~FlagOf(prev) \/ ~ev.online \/ isInBackoff(Txn(prev), now).ret)
    /\ ev.fast => /\ tab[ev.tab].pc = "navigating"
                  /\ ~tab[ev.tab].hasFrame
                  /\ ~tab[ev.tab].timer
    /\ ~ev.fast => /\ tab[ev.tab].pc = "shell"
                   /\ tab[ev.tab].hasFrame
                   /\ tab[ev.tab].timer
                   /\ tab[ev.tab].due = now + IFRAME_TIMEOUT

\* C1 witness: an online open with the flag set goes fast because of backoff
C1_Witness == Opened /\ ev.fast /\ ev.asked /\ ev.online /\ FlagOf(prev)

\* C2: when the timer or the error listener settles the remote path first,
\* failCount grows by one, failTimestamp is now, the flag is removed and the
\* page navigates to the bundled entry point; an open in that state is fast,
\* and only a step of the version checker sets the flag again.
C2_FailureFallsBack ==
  /\ Failed =>
        /\ ls[OTA_FAIL_COUNT] = <<CountOf(prev) + 1>>
        /\ ls[OTA_FAIL_TS] = <<now>>
        /\ ls[OTA_USE_REMOTE] = Absent
        /\ ls[OTA_REMOTE_VER] = prev[OTA_REMOTE_VER]
        /\ tab[ev.tab].pc = "navigating"
        /\ WouldGoFast
  /\ (~FlagOf(prev) /\ FlagOf(ls)) => ev.op \in {"manifest", "precached"}

\* C2 witness: the timer fired on a frame that had not loaded, with an
\* earlier failure already counted
C2_Witness == ev.op = "timer" /\ ev.ran /\ CountOf(prev) >= 1

\* C3: when the load listener settles the remote path first, the frame is
\* kept, both failure fields are removed, and the flag and the recorded
\* version stay as they were.
C3_LoadKeepsFrame ==
  Loaded =>
    /\ tab[ev.tab].pc = "shell"
    /\ tab[ev.tab].hasFrame
    /\ tab[ev.tab].loaderHidden
    /\ ls[OTA_FAIL_COUNT] = Absent
    /\ ls[OTA_FAIL_TS] = Absent
    /\ ls[OTA_USE_REMOTE] = prev[OTA_USE_REMOTE]
    /\ ls[OTA_REMOTE_VER] = prev[OTA_REMOTE_VER]

\* C3 witness: a load that cleared a recorded failure
C3_Witness == Loaded /\ prev[OTA_FAIL_COUNT] # Absent /\ prev[OTA_FAIL_TS] # Absent

\* C4 as claimed: the third failure in a row leaves the tracker blocked, and
\* every tab open in the 5 minutes after it is fast, whatever else the
\* version checker did in between.
C4_AsClaimed ==
  /\ (Failed /\ fails = MAX_FAILURES) => WouldBlock
  /\ (Opened /\ blockedAt # <<>> /\ now - blockedAt[1] < BACKOFF_MS) => ev.fast

\* C4 as amended: the third failure in a row (with no clearing or reset of
\* the failure count between them) leaves the tracker blocked, and every tab
\* open in the 5 minutes after it is fast as long as neither a successful
\* precache nor a remote frame's load has cleared the failure fields since.
C4_BlockedWhileNotCleared ==
  /\ (Failed /\ fails = MAX_FAILURES) => WouldBlock
  /\ (Opened /\ blockedAt # <<>> /\ ~clearedSince /\ now - blockedAt[1] <= BACKOFF_MS)
       => ev.fast

\* C4 witness: an online open with the flag set, inside the window after a
\* third failure, with nothing cleared since
C4_Witness ==
  /\ Opened /\ ev.online /\ FlagOf(prev)
  /\ blockedAt # <<>> /\ ~clearedSince /\ now > blockedAt[1]

\* C5: no tab both keeps the remote frame and navigates to the bundled entry
\* point, and every open tab ends up in one of the two: a frame that never
\* signals load or error is replaced once its timer fires.
C5_OneOutcome ==
  /\ [](\A t \in Tabs : ~(tab[t].loaderHidden /\ WentBundled(t)))
  /\ \A t \in Tabs : (tab[t].pc = "shell") ~> (Kept(t) \/ WentBundled(t))

\* C5 witness: the timer settled a frame that signalled nothing
C5_Witness == ev.op = "timer" /\ ev.ran /\ WentBundled(ev.tab)

\* C6 as claimed: isBlocked() is true iff failCount >= 3 and
\* now - failTimestamp < 5 min, so false at exactly 5 min.
C6_AsClaimed ==
  (Opened /\ ev.asked) =>
    (ev.ret <=> (CountOf(prev) >= MAX_FAILURES /\ now - TsOf(prev) < BACKOFF_MS))

\* C6 as amended: isBlocked() is true iff failCount >= 3 and
\* now - failTimestamp <= 5 min, so still true at exactly 5 min; this holds
\* of the router's calls and of a call in any reachable state.
C6_BlockedIff ==
  /\ (Opened /\ ev.asked) =>
       (ev.ret <=> (CountOf(prev) >= MAX_FAILURES /\ now - TsOf(prev) <= BACKOFF_MS))
  /\ WouldBlock <=> (CountOf(ls) >= MAX_FAILURES /\ now - TsOf(ls) <= BACKOFF_MS)

\* C6 witness: the router asks at exactly 5 min after the third failure
C6_Witness ==
  /\ Opened /\ ev.asked /\ ev.ret
  /\ CountOf(prev) >= MAX_FAILURES /\ now - TsOf(prev) = BACKOFF_MS

\* C7 as claimed: with failCount >= 3 and the window elapsed (5 min or more
\* since failTimestamp) isBlocked() returns false and sets failCount to 0.
C7_AsClaimed ==
  (Opened /\ ev.asked /\ CountOf(prev) >= MAX_FAILURES /\ now - TsOf(prev) >= BACKOFF_MS)
    => (~ev.ret /\ ls[OTA_FAIL_COUNT] = <<0>>)

\* C7 as amended: with failCount >= 3 and more than 5 min since
\* failTimestamp, isBlocked() returns false and sets failCount to 0 (leaving
\* the other fields), and one recordFailure() after that does not block.
C7_ResetAfterWindow ==
  /\ (Opened /\ ev.asked /\ CountOf(prev) >= MAX_FAILURES /\ now - TsOf(prev) > BACKOFF_MS)
       => /\ ~ev.ret
          /\ ls = [prev EXCEPT ![OTA_FAIL_COUNT] = <<0>>]
          /\ ~WouldBlock
  /\ sinceReset = 1 => ~WouldBlock

\* C7 witness: one failure was recorded after a reset
C7_Witness == Failed /\ sinceReset = 1

\* C8: from cleared failure state the tracker is not blocked after fewer
\* than 3 recordFailure() calls and blocked right after the third; each call
\* adds one to failCount and sets failTimestamp to now.
C8_ThirdFailureBlocks ==
  /\ fails < MAX_FAILURES => (~WouldBlock /\ CountOf(ls) = fails)
  /\ Failed => (CountOf(ls) = CountOf(prev) + 1 /\ ls[OTA_FAIL_TS] = <<now>>)
  /\ (Failed /\ fails = MAX_FAILURES) => (WouldBlock /\ CountOf(ls) = MAX_FAILURES)

\* C8 witness: the third failure in a row has just been recorded
C8_Witness == Failed /\ fails = MAX_FAILURES

\* C9 as claimed: a step that writes or removes one of failCount and
\* failTimestamp writes or removes the other too.
C9_AsClaimed == touched \cap FailKeys \in {{}, FailKeys}

\* C9 as amended: the same, except for isBlocked() finding failCount >= 3
\* with the window elapsed: it sets failCount to 0 and leaves failTimestamp.
C9_WrittenTogether ==
  \/ touched \cap FailKeys \in {{}, FailKeys}
  \/ /\ Opened /\ ev.asked /\ ~ev.ret
     /\ touched = {OTA_FAIL_COUNT}
     /\ ls[OTA_FAIL_COUNT] = <<0>>
     /\ CountOf(prev) >= MAX_FAILURES /\ now - TsOf(prev) > BACKOFF_MS

\* C9 witness: the version checker removed both fields after a precache
C9_Witness == ev.op = "precached" /\ ev.ran /\ FailKeys \subseteq touched /\ CountOf(prev) > 0

\* C10: whenever the flag is set it is "true", remoteVersion is present and
\* a precache load of that very version has completed successfully.
C10_FlagImpliesPrecached ==
  FlagOf(ls) =>
    /\ ls[OTA_USE_REMOTE] = <<"true">>
    /\ ls[OTA_REMOTE_VER] # Absent
    /\ ls[OTA_REMOTE_VER][1] \in precached

\* C10 witness: two versions were precached by different tabs' checkers and
\* the flag was then set again for the recorded one without a new precache
C10_Witness ==
  /\ ev.op = "manifest" /\ ev.res = "cached" /\ ~FlagOf(prev) /\ FlagOf(ls)
  /\ Cardinality(precached) = 2

\* what the properties read off a version string: whether it is three
\* non-empty runs of digits, its triple of integers, and the lexicographic
\* order of triples
WellFormed(v) ==
  LET p == Split(v) IN
  /\ Len(p) = 3
  /\ \A i \in 1..3 : p[i] # <<>> /\ \A j \in 1..Len(p[i]) : IsDigit(p[i][j])
Triple(v) == LET p == Split(v) IN [i \in 1..3 |-> Decimal(p[i], Len(p[i]))]
LexLess(x, y) ==
  \/ x[1] < y[1]
  \/ x[1] = y[1] /\ x[2] < y[2]
  \/ x[1] = y[1] /\ x[2] = y[2] /\ x[3] < y[3]
NewerThanBundled(v) == WellFormed(v) /\ LexLess(Triple(BUNDLED_VERSION), Triple(v))
NotNewerThanBundled(v) == WellFormed(v) /\ ~LexLess(Triple(BUNDLED_VERSION), Triple(v))
\* the last step was runCheck() receiving the manifest / the precache result
GotManifest == ev.op = "manifest"
GotPrecache == ev.op = "precached"

\* C11: when the manifest's version is less than or equal to the bundled one
\* the checker removes the flag and returns without precaching; remoteVersion
\* and the failure fields stay as they were.
C11_UpToDateClearsFlag ==
  (GotManifest /\ NotNewerThanBundled(ev.ver)) =>
    /\ ev.res = "uptodate"
    /\ ls = [prev EXCEPT ![OTA_USE_REMOTE] = Absent]
    /\ tab[ev.tab].chk = "done"
    /\ tab[ev.tab].ver = <<>>

\* C11 witness: the manifest carries the bundled version itself while the
\* flag is set and a failure is on record
C11_Witness ==
  /\ GotManifest /\ ev.ver = BUNDLED_VERSION
  /\ FlagOf(prev) /\ CountOf(prev) >= 1 /\ prev[OTA_REMOTE_VER] # Absent

\* C12: when the manifest's version is newer than the bundled one and is the
\* recorded remoteVersion, the checker sets the flag to "true" and returns
\* without precaching; remoteVersion and the failure fields stay as they were.
C12_CachedReassertsFlag ==
  (GotManifest /\ NewerThanBundled(ev.ver) /\ prev[OTA_REMOTE_VER] = <<ev.ver>>) =>
    /\ ev.res = "cached"
    /\ ls = [prev EXCEPT ![OTA_USE_REMOTE] = <<"true">>]
    /\ tab[ev.tab].chk = "done"
    /\ tab[ev.tab].ver = <<>>

\* C12 witness: the flag had been removed by a failure that is still counted
C12_Witness ==
  /\ GotManifest /\ NewerThanBundled(ev.ver) /\ prev[OTA_REMOTE_VER] = <<ev.ver>>
  /\ ~FlagOf(prev) /\ CountOf(prev) >= 1

\* C13: when the manifest's version is newer than the bundled one and is not
\* the recorded remoteVersion the checker starts a precache and writes
\* nothing; when that precache signals load, the flag becomes "true",
\* remoteVersion the fetched version, and both failure fields are removed.
C13_PrecacheSuccessPersists ==
  /\ (GotManifest /\ NewerThanBundled(ev.ver) /\ prev[OTA_REMOTE_VER] # <<ev.ver>>) =>
       /\ ev.res = "precaching"
       /\ tab[ev.tab].chk = "precaching"
       /\ tab[ev.tab].ver = ev.ver
       /\ ls = prev
  /\ (GotPrecache /\ ev.ran) =>
       /\ ls = [k \in OtaKeys |->
                  IF k = OTA_USE_REMOTE THEN <<"true">>
                  ELSE IF k = OTA_REMOTE_VER THEN <<ev.ver>>
                  ELSE Absent]
       /\ tab[ev.tab].chk = "done"

\* C13 witness: a precache that succeeded replaces an older recorded version
\* and clears a counted failure
C13_Witness ==
  /\ GotPrecache /\ ev.ran
  /\ prev[OTA_REMOTE_VER] \notin {Absent, <<ev.ver>>}
  /\ CountOf(prev) >= 1 /\ ~FlagOf(prev)

\* C14: a checker whose precache times out or signals an error has written
\* none of the four fields: not when it started, not when it began the
\* precache, not when the precache failed.
C14_PrecacheFailureLeavesState ==
  /\ (GotPrecache /\ ~ev.ran) =>
       /\ ev.res = "failed"
       /\ ls = prev /\ touched = {}
       /\ tab[ev.tab].chk = "done"
  /\ (GotManifest /\ ev.res = "precaching") => (ls = prev /\ touched = {})
  /\ ev.op = "check" => (ls = prev /\ touched = {})

\* C14 witness: a precache failed while the flag was set for another version
\* and a failure was on record
C14_Witness ==
  /\ GotPrecache /\ ~ev.ran
  /\ FlagOf(prev) /\ CountOf(prev) >= 1

\* C15 as claimed: a failed fetch, and a manifest whose version is not a
\* well-formed major.minor.patch string, change none of the four fields.
C15_AsClaimed ==
  (ev.op = "fetchfail" \/ (GotManifest /\ ~WellFormed(ev.ver))) => ls = prev

\* C15 as amended: a failed fetch (network error, timeout, non-success
\* response, body that is not JSON, version missing or not a string) changes
\* none of the four fields and ends the check; a version string that is not
\* well-formed is not rejected but compared like any other, and then treated
\* as the comparison says.
C15_FetchFailureSilent ==
  /\ ev.op = "fetchfail" =>
       /\ ls = prev /\ touched = {}
       /\ tab[ev.tab].chk = "done"
  /\ (GotManifest /\ ~WellFormed(ev.ver)) =>
       IF compareSemver(ev.ver, BUNDLED_VERSION) <= 0
       THEN ev.res = "uptodate" /\ ls = [prev EXCEPT ![OTA_USE_REMOTE] = Absent]
       ELSE ev.res \in {"cached", "precaching"}

\* C15 witness: the fetch failed while the flag was set
C15_Witness == ev.op = "fetchfail" /\ FlagOf(prev) /\ prev[OTA_REMOTE_VER] # Absent

\* C16: runCheck() starts at most once in a page, only in a top-level page
\* (the bundled app), never in the remote app embedded in the shell's frame,
\* and only once CHECK_DELAY_MS have passed since the mount; a page closed
\* while the delay is running takes its timer with it.
C16_CheckOncePerSession ==
  /\ \A t \in Tabs :
       /\ tab[t].checks <= 1
       /\ tab[t].chk \in {"waiting", "fetching", "precaching", "done"}
            => tab[t].pc = "bundled"
       /\ tab[t].chk = "waiting" => (tab[t].checks = 0 /\ tab[t].timer)
       /\ tab[t].chk = "embedded" => (tab[t].checks = 0 /\ ~tab[t].timer)
       /\ tab[t].pc = "closed" => (tab[t].checks = 0 /\ ~tab[t].timer)
  /\ ev.op = "check" => (ev.ran /\ tab[ev.tab].checks = 1)

\* C16 witness: one tab's remote app has mounted its checker in the frame and
\* stays idle, while the checker of a bundled page in the other tab has run
C16_Witness ==
  \E t, u \in Tabs :
    /\ tab[t].chk = "embedded" /\ tab[t].hasFrame
    /\ tab[u].pc = "bundled" /\ tab[u].checks = 1 /\ tab[u].chk = "done"

\* the comparison of two triples of integers, major first: -1, 0 or 1
LexCmp(x, y) == IF LexLess(x, y) THEN -1 ELSE IF LexLess(y, x) THEN 1 ELSE 0
\* a version string with every missing or non-numeric piece replaced by 0
ZeroFilled(v) ==
  LET p == Split(v) IN
  [i \in 1..3 |->
     IF i <= Len(p) /\ \A j \in 1..Len(p[i]) : IsDigit(p[i][j])
     THEN Decimal(p[i], Len(p[i])) ELSE 0]
Compared == sr # <<>>

\* C17: on version strings of three non-negative integers compareSemver is
\* the lexicographic comparison of (major, minor, patch): 0 exactly for equal
\* triples, compare(a, a) = 0, antisymmetric and transitive.
C17_LexicographicOrder ==
  (Compared /\ WellFormed(sa) /\ WellFormed(sb) /\ WellFormed(sc)) =>
    /\ sr.ab = LexCmp(Triple(sa), Triple(sb))
    /\ sr.ab = 0 <=> Triple(sa) = Triple(sb)
    /\ sr.aa = 0
    /\ sr.ab = 0 - sr.ba
    /\ (sr.ab = -1 /\ sr.bc = -1) => sr.ac = -1
    /\ (sr.ab <= 0 /\ sr.bc <= 0) => sr.ac <= 0
    /\ (sr.ab = 0 /\ sr.bc = 0) => sr.ac = 0

\* C17 witness: a < b < c where a and b differ in the patch only, 2 against
\* 10, and b and c in the minor
C17_Witness ==
  /\ Compared /\ WellFormed(sa) /\ WellFormed(sb) /\ WellFormed(sc)
  /\ Triple(sa)[1] = Triple(sb)[1] /\ Triple(sa)[2] = Triple(sb)[2]
  /\ Triple(sa)[3] = 2 /\ Triple(sb)[3] = 10
  /\ Triple(sb)[1] = Triple(sc)[1] /\ Triple(sb)[2] < Triple(sc)[2]
  /\ sr.ab = -1 /\ sr.bc = -1 /\ sr.ac = -1

\* C18 as claimed: on any two version strings compareSemver returns the
\* lexicographic comparison of the strings with every missing or non-numeric
\* piece replaced by 0.
C18_AsClaimed ==
  Compared => sr.ab = LexCmp(ZeroFilled(sa), ZeroFilled(sb))

\* the strategy the surroundings call for: direct store first, bridge when
\* embedded, local otherwise
Expected ==
  IF env.chrome THEN "chrome" ELSE IF env.iframe THEN "bridge" ELSE "local"
Asked == pev.op \in {"load", "set"}

\* C19: the first getStrategy() detects, in the order chrome, bridge, local,
\* and memoizes; every later call returns the memoized value and detects
\* nothing; detectStorageStrategy() runs at most once in a page.
C19_ResolvedOnceInOrder ==
  /\ proc.detects <= 1
  /\ proc.calls >= 1 => (proc.detects = 1 /\ proc.strategy # "null")
  /\ (Asked /\ pev.was = "null") => pev.ret = Expected
  /\ (Asked /\ pev.was # "null") => pev.ret = pev.was
  /\ Asked => proc.strategy = pev.ret
  /\ (proc.strategy # "null" /\ ~proc.downgraded) => proc.strategy = Expected

\* C19 witness: a second call in an embedded page without direct store
\* returns the memoized "bridge"
C19_Witness ==
  /\ Asked /\ pev.was = "bridge" /\ pev.ret = "bridge"
  /\ proc.calls = 2 /\ proc.detects = 1 /\ ~env.chrome /\ env.iframe

\* C20: once resolved, _strategy changes only from "bridge" to "local", in
\* the step in which the handshake times out; after that it stays "local",
\* also when the host's acknowledgment arrives late.
C20_OnlyDowngrade ==
  /\ [](proc.downgraded => proc.strategy = "local")
  /\ [][(proc.strategy # "null" /\ proc'.strategy # proc.strategy) =>
           /\ proc.strategy = "bridge" /\ proc'.strategy = "local"
           /\ pev'.op = "timeout"
           /\ proc.bridgeReady = "pending" /\ proc'.bridgeReady = "false"]_vars

\* C20 witness: the acknowledgment arrived after the downgrade, and a later
\* call still got "local"
C20_Witness ==
  /\ proc.downgraded /\ proc.acked /\ proc.ready
  /\ Asked /\ pev.ret = "local" /\ pev.was = "local"

\* ------------------------------------------------ persistent-state store
StorageOp == pev.op \in {"load", "resume", "set"}

\* C21: an acknowledgment handled less than 500 ms after waitForReady()
\* resolves the handshake and the strategy stays "bridge"; the rejection
\* comes no earlier than 500 ms after the call and only without such an
\* acknowledgment, it makes the strategy "local", and every read and write
\* from then on goes to localStorage and sends nothing over the bridge.
C21_HandshakeTimeout ==
  /\ []((proc.ackAt >= 0 /\ proc.ackAt < HANDSHAKE_TIMEOUT) =>
          (proc.bridgeReady = "true" /\ proc.strategy = "bridge" /\ ~proc.downgraded))
  /\ [](proc.downgraded =>
          /\ proc.waited >= HANDSHAKE_TIMEOUT
          /\ proc.bridgeReady = "false" /\ proc.strategy = "local"
          /\ proc.ackAt = -1 \/ proc.ackAt >= HANDSHAKE_TIMEOUT)
  /\ []((proc.downgraded /\ StorageOp) =>
          /\ pev.ret = "local" /\ ~pev.sent
          /\ (pev.op # "set" /\ ~pev.threw) => pev.found = back.local[pev.key])
  /\ [][(proc.bridgeReady = "pending" /\ pev'.op = "timeout") =>
          (proc'.bridgeReady = "false" /\ proc'.downgraded)]_vars
  /\ [][(proc.downgraded /\ pev'.op = "set") =>
          /\ inflight' = inflight /\ back'.sync = back.sync
          /\ ~pev'.threw => back'.local[pev'.key] = <<pev'.val>>]_vars

\* C21 witness: the handshake of a framed page has timed out and a later
\* setValue() wrote localStorage
C21_Witness ==
  /\ proc.downgraded /\ env.iframe /\ ~env.chrome
  /\ pev.op = "set" /\ pev.ret = "local" /\ ~pev.threw
  /\ back.local[pev.key] = <<pev.val>>

\* C22, as claimed: whenever a get or set request goes over the bridge the
\* handshake has completed (it was acknowledged or it timed out).
C22_AsClaimed == pev.sent => proc.bridgeReady \in {"true", "false"}

\* C23: until its load ends a key shows isLoading = true, and initialValue
\* as long as nothing was set; the step that ends the load replaces the
\* value by what the backend returned if that is not absent and leaves it
\* otherwise; every load that has started ends with isLoading = false,
\* also after a failed read or a handshake timeout.
C23_LoadAlwaysEnds ==
  /\ [](\A k \in StoreKeys :
          /\ load[k].pc # "done" => hook[k].loading
          /\ load[k].pc = "done" => ~hook[k].loading
          /\ (load[k].pc # "done" /\ proc.sets = 0) => hook[k].value = InitialValue)
  /\ [][\A k \in StoreKeys :
          (load[k].pc # "done" /\ load'[k].pc = "done") =>
            /\ pev'.key = k
            /\ pev'.found \in {Absent, IF load'[k].strategy = "local"
                                       THEN back.local[k] ELSE back.sync[k]}
            /\ pev'.threw => pev'.found = Absent
            /\ hook'[k].value = IF pev'.found # Absent THEN pev'.found[1]
                                ELSE hook[k].value]_vars
  /\ \A k \in StoreKeys : (load[k].pc # "idle") ~> ~hook[k].loading

\* C23 witness: after the handshake timed out the read of localStorage
\* threw, and the load has ended with the value it had
C23_Witness ==
  /\ proc.downgraded /\ pev.op = "resume" /\ pev.threw
  /\ load[pev.key].pc = "done" /\ ~hook[pev.key].loading
  /\ hook[pev.key].value = InitialValue

\* C24: the step that calls setValue(v) leaves v as the in-memory value,
\* with the write to chrome.storage.sync or over the bridge still to be
\* carried out; a write that fails, then or later, changes no in-memory
\* value, and setValue() completes all the same.
C24_SetValueImmediate ==
  [][/\ pev'.op = "set" =>
          /\ hook'[pev'.key].value = pev'.val
          /\ pev'.ret # "local" =>
               (back' = back /\ inflight' = Append(inflight,
                  [key |-> pev'.key, val |-> pev'.val, via |-> pev'.ret]))
          /\ pev'.threw => back' = back
     /\ pev'.op = "written" => hook' = hook]_vars

\* C24 witness: a write to chrome.storage.sync has failed and the key's
\* in-memory value is still the one set
C24_Witness ==
  /\ pev.op = "written" /\ pev.threw
  /\ hook[pev.key].value = pev.val /\ back.sync[pev.key] # <<pev.val>>

\* C39, as claimed: a key's in-memory value that setValue() has set changes
\* only in a step that calls setValue() for that key.
C39_AsClaimed ==
  [][\A k \in StoreKeys :
       (hook[k].value \in NewValues /\ ~(pev'.op = "set" /\ pev'.key = k)) =>
         hook'[k].value = hook[k].value]_vars

Bridged == ~env.chrome /\ env.iframe
Observed(k) == load[k].pc \in {"reading", "done"}

\* C40: in a page that resolved to "bridge", however its loads interleave,
\* one StorageBridgeClient is constructed and one waitForReady() is made,
\* and all loads that have got past the handshake use the same backend:
\* all "bridge" or all "local".
C40_OneHandshake ==
  /\ proc.clients <= 1 /\ proc.waits <= 1
  /\ proc.waits = 1 => (Bridged /\ proc.clients = 1)
  /\ Bridged =>
       \A k1 \in StoreKeys, k2 \in StoreKeys :
         (Observed(k1) /\ Observed(k2)) =>
           /\ load[k1].strategy = load[k2].strategy
           /\ load[k1].strategy = IF proc.bridgeReady = "true" THEN "bridge"
                                  ELSE "local"

\* C40 witness: two loads waited for the one handshake together, it timed
\* out, and both went on with localStorage
C40_Witness ==
  /\ Bridged /\ proc.downgraded /\ proc.waits = 1 /\ proc.clients = 1
  /\ \A k \in StoreKeys : Observed(k) /\ load[k].strategy = "local"
  /\ pev.op = "resume"

\* ------------------------------------------------------- storage bridge
Responses == {"storage-result", "storage-set-ack"}
ResponseTo(kind) == IF kind = "get" THEN "storage-result" ELSE "storage-set-ack"
InFlight(i) ==
  \/ \E m \in toHost : m.id = i
  \/ \E o \in hops : o.id = i
  \/ \E m \in toClient : m.id = i /\ m.type \in Responses

\* C25: a call that has resolved was resolved by the response the host
\* sent under the call's own id: a response to its own key, after the host
\* answered that id, with the data read for a get and none for a set; this
\* whatever else is in flight and in whatever order the responses arrive.
C25_ResolvedByOwnResponse ==
  \A i \in CallIds :
    bcall[i].state = "resolved" =>
      /\ hreplies[i] >= 1
      /\ bcall[i].from = bcall[i].key
      /\ bcall[i].kind = "set" => bcall[i].data = <<>>
      /\ bcall[i].kind = "get" => bcall[i].data \in {<<>>, <<"a">>, <<"b">>}
      /\ i \notin bc.pending

\* C25 witness: two calls for different keys were in flight and the later
\* one's response arrived first
C25_Witness ==
  /\ MaxCalls >= 2
  /\ bcall[1].state = "pending" /\ bcall[2].state = "resolved"
  /\ bcall[1].key # bcall[2].key
  /\ bev.op = "client" /\ bev.resolved = {2}

\* C26: no call is resolved more than once; a response whose id is not in
\* the pending table (a repeated one, or one under an id never drawn)
\* resolves nothing and leaves the table and the calls as they were.
C26_AtMostOneResponse ==
  /\ [](\A i \in CallIds : bcall[i].n <= 1)
  /\ [][(bev'.op = "client" /\ bev'.type \in Responses /\ bev'.id \notin bc.pending) =>
          (bev'.resolved = {} /\ bc' = bc /\ bcall' = bcall)]_vars

\* C26 witness: the response of a resolved call has arrived again from the
\* parent and was dropped
C26_Witness ==
  /\ bev.op = "client" /\ bev.src = "parent" /\ bev.type \in Responses
  /\ bev.id \in CallIds /\ bcall[bev.id].state = "resolved" /\ bcall[bev.id].n = 1
  /\ bev.resolved = {}

\* C28, as claimed: the host touches the store or replies only for messages
\* sent from the remote app's origin.
C28_AsClaimed ==
  (bev.op \in {"host", "hostdone"} /\ (bev.touched \/ bev.replies # {})) =>
    bev.origin = "remote"

\* C29: each accepted announcement is answered by one bridge-ready; each
\* accepted get or set is carried out on the store and answered by exactly
\* one response, a result for a get and a set-ack for a set, under the
\* request's id; no id is answered twice, and once nothing of a call is on
\* its way to or through the host, the call has been answered.
C29_OneMatchingResponse ==
  /\ [](\A i \in CallIds :
          /\ hreplies[i] <= 1
          /\ (bcall[i].kind # "none" /\ ~InFlight(i)) => hreplies[i] = 1)
  /\ [](\A m \in toClient :
          (m.type \in Responses /\ m.id \in CallIds) =>
            (m.type = ResponseTo(bcall[m.id].kind) /\ m.key = bcall[m.id].key))
  /\ [][(bev'.op = "host" /\ bev'.accepted /\ bev'.type = "iframe-ready") =>
          /\ bev'.replies = {ToClientMsg("parent", "bridge-ready", 0, "", <<>>)}
          /\ bev'.replies \subseteq toClient'
          /\ hstore' = hstore]_vars
  /\ [][(bev'.op \in {"host", "hostdone"} /\ bev'.accepted
           /\ bev'.type \in {"storage-get", "storage-set"}) =>
          IF bev'.op = "host" /\ hostChrome
          THEN bev'.replies = {} /\ hstore' = hstore /\ hreplies' = hreplies
               /\ \E o \in hops' \ hops : o.id = bev'.id /\ o.type = bev'.type
          ELSE /\ Cardinality(bev'.replies) = 1
               /\ bev'.replies \subseteq toClient'
               /\ \A a \in bev'.replies :
                    /\ a.id = bev'.id
                    /\ a.type = IF bev'.type = "storage-get" THEN "storage-result"
                                ELSE "storage-set-ack"
                    /\ (bev'.type = "storage-get" /\ ~bev'.failed) =>
                         a.data = hstore[bev'.key]
               /\ hstore' = IF bev'.type = "storage-set" /\ ~bev'.failed
                            THEN [hstore EXCEPT ![bev'.key] = <<bev'.val>>]
                            ELSE hstore]_vars

\* C29 witness: the host has carried out a set of the client and sent its
\* one set-ack
C29_Witness ==
  /\ bev.op = "hostdone" /\ bev.type = "storage-set" /\ bev.id \in CallIds
  /\ ~bev.failed /\ hstore[bev.key] = <<bev.val>>
  /\ hreplies[bev.id] = 1
  /\ \E a \in toClient : a.type = "storage-set-ack" /\ a.id = bev.id

\* C27: a message whose source is not the parent, whatever its type and
\* id, changes nothing in the client (ready flag, pending table, change
\* listeners), resolves no call and calls no listener.
C27_OnlyParentAccepted ==
  [][(bev'.op = "client" /\ bev'.src # "parent") =>
       /\ ~bev'.accepted /\ bev'.resolved = {} /\ bev'.called = <<>>
       /\ bc' = bc /\ bcall' = bcall]_vars

\* C27 witness: a window that is not the parent has sent a result under the
\* id of a pending call, while the client was not ready and had a listener
C27_Witness ==
  /\ bev.op = "client" /\ bev.src = "other" /\ bev.type = "storage-result"
  /\ bev.id \in bc.pending /\ ~bc.ready /\ Len(bc.listeners) > 0

\* C30: a change event of the host calls every entry of the listener list
\* as it is when the event arrives, in order, whether or not an earlier one
\* throws; unsubscribing removes the listener from the list, so that later
\* events do not call it.
C30_AllListenersCalled ==
  /\ [][(bev'.op = "client" /\ bev'.accepted /\ bev'.type = "storage-changed") =>
          (bev'.called = bc.listeners /\ bc' = bc)]_vars
  /\ [][bev'.op = "unsub" =>
          \A i \in 1..Len(bc'.listeners) : bc'.listeners[i] # bev'.lis]_vars
  /\ [][bev'.op = "sub" => bc'.listeners = Append(bc.listeners, bev'.lis)]_vars

\* C30 witness: the first listener throws and the second was called all
\* the same
C30_Witness ==
  /\ bev.op = "client" /\ bev.type = "storage-changed" /\ bev.accepted
  /\ Len(bev.called) = 2 /\ bev.called[1] \in Throwing
  /\ bev.called[2] \notin Throwing

\* C31: whatever the order in which two tabs' writes of one key are carried
\* out, the key holds the value of the write carried out last (or what it
\* held before, while none was), which is exactly one tab's value and never
\* a combination; each tab keeps the value it set, and a refused write
\* changes nothing.
AllWritten == {WrittenBy(t, n) : t \in WriteTabs, n \in 1..MaxSets}

C31_LastWriteWins ==
  /\ [](wstore.value = IF wstore.last = <<>> THEN wstore.init ELSE wstore.last)
  /\ [](wstore.value \in {<<>>, <<StoredBefore>>} \cup {<<v>> : v \in AllWritten})
  /\ [][(wev' # wev /\ wev'.op \in {"set", "complete"}) =>
          /\ (wev'.op = "complete" \/ wstore.kind = "local") =>
                wstore'.value = IF wev'.ok THEN <<wev'.val>> ELSE wstore.value
          /\ \A t \in WriteTabs : t # wev'.tab => wpage'[t] = wpage[t]]_vars
  /\ [](\A t \in WriteTabs :
          wpage[t].sets > 0 => wpage[t].value = WrittenBy(t, wpage[t].sets))

\* C31 witness: both tabs had a write under way at once; tab 2's was
\* carried out first and tab 1's after it, and the key holds tab 1's value
C31_Witness ==
  /\ wstore.kind = "chrome"
  /\ wpage[1].sets = 1 /\ wpage[2].sets = 1
  /\ wpage[1].out = <<>> /\ wpage[2].out = <<>>
  /\ wev.op = "complete" /\ wev.tab = 1 /\ wev.ok
  /\ wstore.value = <<WrittenBy(1, 1)>>
  /\ wpage[2].value = WrittenBy(2, 1)

\* C32: the worker's cache never holds an entry for the manifest path, no
\* refetch of it is ever in flight for the cache, and every request for it
\* is answered with what the network gave at that moment (or fails with
\* the network), leaving the cache as it was.
C32_ManifestNeverCached ==
  /\ [](cache.own[MANIFEST_PATH] = NoEntry)
  /\ [](\A f \in refetch : f.path # MANIFEST_PATH)
  /\ [][(swev' # swev /\ swev'.op = "fetch" /\ swev'.path = MANIFEST_PATH) =>
          /\ swev'.from = "network" /\ swev'.answered = swev'.got
          /\ swev'.got \in {<<r>> : r \in Answers(server)} \cup {<<>>}
          /\ cache' = cache /\ refetch' = refetch]_vars

\* C32 witness: with the precached pages in the cache and a second
\* deployment live, the manifest was requested and the network's answer
\* of that deployment was returned
C32_Witness ==
  /\ swev.op = "fetch" /\ swev.path = MANIFEST_PATH
  /\ swev.answered = <<Ok(MaxDeploys)>>
  /\ cache.own["/index.html"] = <<Ok(1)>>

\* C33 as the spec words it: the refetch of a path that had a cached entry
\* always overwrites the entry with the fetched response.
C33_AsClaimed ==
  [][(swev' # swev /\ swev'.op = "refetched" /\ swev'.had /\ swev'.got # <<>>) =>
       cache'.own[swev'.path] = swev'.got]_vars

\* C33 (amended): a request for a path other than the manifest's that has a
\* cached entry is answered with that entry at once, and a refetch is
\* started; when the refetch ends with a response of status 200 and type
\* "basic" the entry is overwritten with it; any other response and a
\* network failure leave the cache as it was.
C33_CacheFirstRevalidate ==
  /\ [][(swev' # swev /\ swev'.op = "fetch" /\ swev'.path # MANIFEST_PATH
           /\ cache.own[swev'.path] # NoEntry) =>
          /\ swev'.from = "cache" /\ swev'.answered = cache.own[swev'.path]
          /\ \E f \in refetch' : f.path = swev'.path /\ ~f.waiting
          /\ cache' = cache]_vars
  /\ [][(swev' # swev /\ swev'.op = "refetched") =>
          IF swev'.got # <<>> /\ swev'.got[1].status = 200 /\ swev'.got[1].type = "basic"
          THEN cache' = [cache EXCEPT !.own[swev'.path] = swev'.got]
          ELSE cache' = cache]_vars

\* C33 witness: a page was answered from the cache with the first
\* deployment's file and the refetch has replaced the entry with the second
\* deployment's
C33_Witness ==
  /\ swev.op = "refetched" /\ swev.path = "/index.html" /\ swev.had /\ swev.put
  /\ swev.from = ""
  /\ cache.own["/index.html"] = <<Ok(MaxDeploys)>>

\* C34: the checker of a page moves only: from waiting for its delay (Idle)
\* to fetching (Checking); from fetching back to rest on a failed fetch, to
\* UpToDate on a version that is not newer, to precaching on a newer version
\* (which ends at once with the flag set when that version is recorded as
\* precached); from precaching to Ready or Failed.  A run that has ended
\* makes no further move, and precaching is entered only on a manifest whose
\* version compares greater than the bundled one.
CheckerStep(t) ==
  LET a == tab[t].chk
      b == tab'[t].chk
      mine == ev'.tab = t
  IN
  \/ b = a
  \/ tab'[t] = NoPage
  \/ a = "none" /\ b \in {"waiting", "embedded"}
  \/ a = "waiting" /\ b = "fetching" /\ mine /\ ev'.op = "check"
  \/ a = "fetching" /\ b = "done" /\ mine /\ ev'.op = "fetchfail" /\ ls' = ls
  \/ /\ a = "fetching" /\ b = "done" /\ mine /\ ev'.op = "manifest"
     /\ \/ ev'.res = "uptodate" /\ compareSemver(ev'.ver, BUNDLED_VERSION) <= 0
        \/ /\ ev'.res = "cached" /\ compareSemver(ev'.ver, BUNDLED_VERSION) > 0
           /\ ls[OTA_REMOTE_VER] = <<ev'.ver>> /\ FlagOf(ls')
  \/ /\ a = "fetching" /\ b = "precaching" /\ mine /\ ev'.op = "manifest"
     /\ compareSemver(ev'.ver, BUNDLED_VERSION) > 0
     /\ WellFormed(ev'.ver) => NewerThanBundled(ev'.ver)
     /\ tab'[t].ver = ev'.ver /\ ls' = ls
  \/ /\ a = "precaching" /\ b = "done" /\ mine /\ ev'.op = "precached"
     /\ ev'.res \in {"ready", "failed"}
     /\ ev'.ver = tab[t].ver

C34_CheckerTransitions ==
  /\ [][\A t \in Tabs : CheckerStep(t)]_vars
  /\ [][\A t \in Tabs : tab[t].chk \in {"done", "embedded"} =>
          (tab'[t].chk = tab[t].chk \/ tab'[t] = NoPage)]_vars
  /\ [](\A t \in Tabs : tab[t].chk = "precaching" =>
          /\ compareSemver(tab[t].ver, BUNDLED_VERSION) > 0
          /\ tab[t].checks = 1)
  /\ [](\A t \in Tabs : tab[t].checks <= 1)

\* C34 witness: a run went waiting, fetching, precaching and has just ended
\* as Ready on a version newer than the bundled one
C34_Witness ==
  /\ ev.op = "precached" /\ ev.res = "ready"
  /\ tab[ev.tab].chk = "done" /\ tab[ev.tab].checks = 1
  /\ NewerThanBundled(ev.ver)
  /\ FlagOf(ls) /\ ls[OTA_REMOTE_VER] = <<ev.ver>>

\* C35: an attempt resolves once, with the outcome of the first of load
\* (true), error (false) and the timeout (false); every later signal changes
\* nothing; and every attempt that was started reaches a state in which the
\* outcome is reported and the iframe is out of the document.
PrecacheSignals == {"load", "error", "timeout"}

C35_OneOutcomeThenRemoved ==
  /\ [](att.resolves <= 1)
  /\ [][att.outcome # <<>> => att'.outcome = att.outcome]_vars
  /\ [][(aev' # aev /\ aev'.op \in PrecacheSignals /\ ~att.settled) =>
          (aev'.ran /\ att'.outcome = <<aev'.op = "load">> /\ ~att'.timer)]_vars
  /\ [][(aev' # aev /\ aev'.op \in PrecacheSignals /\ att.settled) =>
          (~aev'.ran /\ att' = att)]_vars
  /\ [](att.running /\ ~att.attached => att.outcome # <<>>)
  /\ (att.running ~> (att.outcome # <<>> /\ ~att.attached))
  /\ [][~att'.attached /\ att.attached => aev'.op = "cleanup"]_vars

\* C35 witness: the timeout decided the attempt and, after the cleanup
\* delay, the iframe has been removed
C35_Witness ==
  /\ att.running /\ att.outcome = <<FALSE>> /\ att.resolves = 1
  /\ ~att.attached /\ aev.op = "cleanup"
  /\ att.now >= PRECACHE_TIMEOUT_MS + CLEANUP_DELAY_MS

\* C36: an id leaves the client's table of pending calls only when the
\* parent's response with that id is handled or when destroy() runs, and a
\* call stops waiting only on the response with its id; nothing else (no
\* timer, no other message, no later client) ends a call, so a call whose
\* table entry was cleared by destroy() waits for ever.
C36_PendingLeavesOnlyOnResponseOrDestroy ==
  /\ [][\A i \in bc.pending : i \notin bc'.pending =>
          \/ bev'.op = "destroy"
          \/ /\ bev'.op = "client" /\ bev'.accepted /\ bev'.src = "parent"
             /\ bev'.id = i /\ bev'.type \in {"storage-result", "storage-set-ack"}]_vars
  /\ [][\A i \in CallIds : (bcall[i].state = "pending" /\ bcall'[i] # bcall[i]) =>
          /\ i \in bc.pending /\ i \notin bc'.pending
          /\ bev'.op = "client" /\ bev'.id = i /\ bev'.resolved = {i}]_vars
  /\ [][bev'.op = "destroy" => (bc'.pending = {} /\ bcall' = bcall)]_vars

\* C36 witness: call 1 lost its entry by destroy(); the host's response to
\* it reached the next client and was dropped; call 1 still waits
C36_Witness ==
  /\ bc.made /\ bc.pending = {}
  /\ bcall[1].state = "pending"
  /\ bev.op = "client" /\ bev.src = "parent" /\ bev.id = 1
  /\ bev.type = "storage-result" /\ bev.resolved = {}

\* ------------------------------------------------- one tab and its host
Signal == {"load", "error", "timer"}
ShellAlive == tab[1].pc \in {"shell", "navigating"}

\* C37: the host's listener exists exactly in a tab whose routing decision
\* took the remote path; a message at the window of a tab that took the fast
\* path reads and writes nothing and gets no reply; on the remote path the
\* store is touched and replies are sent only for messages whose source is
\* the frame's window.
C37_HostOnlyOnRemotePath ==
  /\ [][ev'.op = "open" /\ ev' # ev => (tab'[1].hasFrame <=> ~ev'.fast)]_vars
  /\ [][(tab'[1].hasFrame /\ ~tab[1].hasFrame) => (ev'.op = "open" /\ ~ev'.fast)]_vars
  /\ [][(toClient' # toClient \/ hops' # hops \/ hstore' # hstore) =>
          (tab[1].hasFrame /\ ShellAlive /\ bev'.src = "frame")]_vars
  /\ []((bev.op = "host" /\ bev.accepted) => bev.src = "frame")
  /\ []((bev.op = "host" /\ ~bev.accepted) => (bev.replies = {} /\ ~bev.touched))

\* C37 witness: the tab took the fast path and a message of the frame's
\* window found no listener
C37_Witness ==
  /\ ev.op = "open" /\ ev.fast /\ ~tab[1].hasFrame
  /\ bev.op = "nohost" /\ bev.src = "frame" /\ bev.type = "storage-get"

\* C38: the first signal settles the outcome; every later load, error or
\* timer event of the same page changes neither localStorage nor the page:
\* a late load clears no failure field, a late error or timer records no
\* failure and leaves the flag.
C38_SettledOnce ==
  /\ [][(ev' # ev /\ ev'.op \in Signal /\ tab[ev'.tab].settled) =>
          /\ ~ev'.ran
          /\ ls' = ls /\ tab' = tab /\ fails' = fails]_vars
  /\ [][(ev' # ev /\ ev'.op \in Signal /\ ~tab[ev'.tab].settled) =>
          (ev'.ran /\ tab'[ev'.tab].settled)]_vars
  /\ [](\A t \in Tabs : tab[t].settled => ~tab[t].timer)

\* C38 witness: an error or the timer settled the tab as failed and a later load of the
\* frame was ignored: the failure fields are still there
C38_Witness ==
  /\ ev.op = "load" /\ ~ev.ran /\ tab[ev.tab].pc = "navigating"
  /\ CountOf(ls) >= 1 /\ ~FlagOf(ls)

====
